---- MODULE Spec2Model ----
(***************************************************************************)
(* Model of create_presentation.py, the TAGO Leap pitch deck generator.    *)
(*                                                                         *)
(* The script is one linear run: it creates a document, appends twelve     *)
(* slides, fills each slide by calling drawing primitives with literal     *)
(* arguments, saves the document and prints a confirmation.  The model     *)
(* keeps the document (slides, shapes, text frames), the output file, the  *)
(* console, and the position of the run in the script.  Lengths are kept   *)
(* the way the script produces them: Python floats (IEEE-754 doubles)      *)
(* converted to whole EMU by Inches(), which truncates.                    *)
(***************************************************************************)
EXTENDS Integers, Sequences, FiniteSets, TLC

VARIABLES
    code,      \* the statements of create_presentation being run; never changes
    pc,        \* index in code of the next statement of create_presentation
    prs,       \* the document: <<>> before Presentation(), else <<document>>
    slideVar,  \* slideVar[k]: index in prs.slides bound to variable slide<k> (0: unbound)
    err,       \* "none", or "raised" once an exception left create_presentation
    files,     \* the files written so far, in order: [path, doc]
    stdout,    \* the lines printed so far
    result,    \* <<>>, or <<value returned by create_presentation>>
    env,       \* what the library build does with the optional styling calls
    last       \* the primitive call executed last: its name, arguments and result

vars == <<code, pc, prs, slideVar, err, files, stdout, result, env, last>>

None == <<>>
Some(v) == <<v>>

\* body(v) and body(v, w) with the arguments evaluated first, once
Bind(v, body(_)) == CHOOSE r \in { body(x) : x \in {v} } : TRUE
Bind2(v, w, body(_, _)) == CHOOSE r \in { body(x, y) : x \in {v}, y \in {w} } : TRUE

-----------------------------------------------------------------------------
(* Python float arithmetic.  A float is an IEEE-754 double.  Every double  *)
(* the script computes is a multiple of 2^-75 below 2^30, so it is kept    *)
(* exactly as a little-endian sequence of seven base-2^15 limbs, five of   *)
(* them fractional.  Each operation computes the exact result and rounds   *)
(* it to 53 significant bits, ties to even, as the hardware does.          *)

Base == 2^15
FracLimbs == 5
FloatLimbs == 7

\* a limb sequence is always an explicit tuple of numbers: Limbs makes one of
\* a function on 1..n
Limbs(f) == f \o <<>>

\* a cut or filled with high zero limbs to n limbs
Pad(a, n) == SubSeq(a \o [i \in 1..n |-> 0], 1, n)

Max(m, n) == IF m > n THEN m ELSE n

\* the carry into limb i of a + b: a lower limb overflows and every limb
\* between passes the carry on
CarryInto(a, b, i) ==
    \E j \in 1..(i - 1) :
        /\ a[j] + b[j] >= Base
        /\ \A k \in (j + 1)..(i - 1) : a[k] + b[k] = Base - 1

AddLimbs(a, b) ==
    LET n == Max(Len(a), Len(b)) + 1
    IN Bind2(Pad(a, n), Pad(b, n), LAMBDA x, y :
           Limbs([i \in 1..n |->
                     (x[i] + y[i] + (IF CarryInto(x, y, i) THEN 1 ELSE 0)) % Base]))

BigAdd(a, b) == Bind2(a, b, AddLimbs)

\* the borrow from limb i of a - b
BorrowFrom(a, b, i) ==
    \E j \in 1..(i - 1) :
        /\ a[j] < b[j]
        /\ \A k \in (j + 1)..(i - 1) : a[k] = b[k]

SubLimbs(a, b) ==
    Bind(Pad(b, Len(a)), LAMBDA y :
        Limbs([i \in 1..Len(a) |->
                  (a[i] - y[i] - (IF BorrowFrom(a, y, i) THEN 1 ELSE 0) + Base) % Base]))

\* a - b for a >= b
BigSub(a, b) == Bind2(a, b, SubLimbs)

\* a * d for a limb d: the low halves of the limb products plus the high
\* halves one limb up
MulLimb(a, d) ==
    BigAdd([i \in 1..Len(a) |-> (a[i] * d) % Base],
           <<0>> \o [i \in 1..Len(a) |-> (a[i] * d) \div Base])

RECURSIVE MulFrom(_, _, _, _)
\* schoolbook multiplication from limb j of b on; acc is the running sum above
\* the limbs already final
MulFrom(a, b, j, acc) ==
    IF j > Len(b) THEN acc
    ELSE Bind(IF b[j] = 0 THEN acc ELSE BigAdd(acc, MulLimb(a, b[j])), LAMBDA t :
             <<t[1]>> \o MulFrom(a, b, j + 1, Tail(t)))

MulLimbs(a, b) == MulFrom(a, b, 1, Pad(<<>>, Max(Len(a), Len(b))))

BigMul(a, b) == Bind2(a, b, MulLimbs)

\* the number of bits of a limb
LimbBits(d) == CHOOSE k \in 0..15 : d < 2^k /\ (k = 0 \/ d >= 2^(k - 1))

\* the index of the highest limb that is not 0, or 0
TopLimb(a) ==
    IF \A i \in 1..Len(a) : a[i] = 0 THEN 0
    ELSE CHOOSE i \in 1..Len(a) : a[i] # 0 /\ \A j \in (i + 1)..Len(a) : a[j] = 0

BitLen(a) ==
    Bind(TopLimb(a), LAMBDA t : IF t = 0 THEN 0 ELSE 15 * (t - 1) + LimbBits(a[t]))

Bit(a, j) == (a[(j \div 15) + 1] \div (2^(j % 15))) % 2

LowNonZero(a, j) ==
    \/ \E i \in 1..(j \div 15) : a[i] # 0
    \/ a[(j \div 15) + 1] % (2^(j % 15)) # 0

ClearLow(a, k) ==
    Limbs([i \in 1..Len(a) |->
              IF i - 1 < k \div 15 THEN 0
              ELSE IF i - 1 = k \div 15 THEN a[i] - (a[i] % (2^(k % 15)))
              ELSE a[i]])

\* a rounded to a multiple of 2^k, to nearest, ties to even
RoundAt(a, k) ==
    IF k <= 0 THEN a
    ELSE IF Bit(a, k - 1) = 1 /\ (LowNonZero(a, k - 1) \/ Bit(a, k) = 1)
         THEN BigAdd(ClearLow(a, k),
                     Limbs([i \in 1..((k \div 15) + 1) |->
                               IF i = (k \div 15) + 1 THEN 2^(k % 15) ELSE 0]))
         ELSE ClearLow(a, k)

\* round to nearest, ties to even, keeping 53 significant bits
Round53(a) == Bind(a, LAMBDA x : Bind2(x, BitLen(x) - 53, RoundAt))

\* float(n) of an int 0 <= n < 2^30: exact
FromInt(n) == <<0, 0, 0, 0, 0, n % Base, n \div Base>>

RECURSIVE DivSmall(_, _, _, _)
\* long division of a by the small number d from limb i downwards, r the
\* running remainder: the quotient's limbs i down to 1, then the remainder
DivSmall(a, d, i, r) ==
    IF i = 0 THEN <<r>>
    ELSE LET cur == r * Base + a[i]
         IN <<cur \div d>> \o DivSmall(a, d, i - 1, cur % d)

\* the quotient limbs q of a division, made odd in the last place when the
\* division left a remainder, so that rounding sees the digits cut off
Sticky(q, rem) ==
    IF rem # 0 /\ q[1] % 2 = 0 THEN [q EXCEPT ![1] = q[1] + 1] ELSE q

\* the double a decimal literal denotes: Lit(13333, 3) is 13.333, Lit(10, 0) is 10
Lit(m, p) ==
    Bind(DivSmall(FromInt(m), 10^p, FloatLimbs, 0), LAMBDA qr :
        Pad(Round53(Bind2(Limbs([i \in 1..FloatLimbs |-> qr[FloatLimbs + 1 - i]]),
                          qr[FloatLimbs + 1], Sticky)),
            FloatLimbs))

\* a + b, a - b (a >= b) and a * b on floats
FAdd(a, b) == Pad(Round53(BigAdd(a, b)), FloatLimbs)
FSub(a, b) == Pad(Round53(BigSub(a, b)), FloatLimbs)
FMul(a, b) ==
    Pad(SubSeq(Pad(Round53(BigMul(a, b)), 2 * FloatLimbs),
               FracLimbs + 1, FracLimbs + FloatLimbs), FloatLimbs)

HalfLimbs(a) ==
    Limbs([i \in 1..FloatLimbs |->
              (a[i] \div 2) + (IF i < FloatLimbs /\ a[i + 1] % 2 = 1 THEN Base \div 2 ELSE 0)])
\* a / 2 for a double whose last mantissa bit pair allows it: exact halving
FHalf(a) == Bind(a, HalfLimbs)

Whole(a) == a[FracLimbs + 1] + Base * a[FracLimbs + 2]
\* int(a): truncation
ToInt(a) == Bind(a, Whole)
\* a is a whole number
IsWhole(a) == \A i \in 1..FracLimbs : a[i] = 0

\* pptx.util.Inches / Pt: a Length in EMU, int(value * EMU per unit)
EMUS_PER_INCH == 914400
EMUS_PER_PT == 12700
Inches(v) == ToInt(FMul(v, FromInt(EMUS_PER_INCH)))
Pt(n) == n * EMUS_PER_PT

\* the quotient limbs of a DivSmall result, lowest limb first
Quotient(qr) == Limbs([i \in 1..FloatLimbs |-> qr[FloatLimbs + 1 - i]])

\* Length.inches, the read side of Inches: emu / 914400.0 for an int emu;
\* 914400 = 2^5 * 28575 and the division by 2^5 is exact, so the quotient is
\* rounded once
inches(emu) ==
    Bind(DivSmall(Quotient(DivSmall(FromInt(emu), 32, FloatLimbs, 0)), 28575, FloatLimbs, 0),
         LAMBDA qr : Pad(Round53(Bind2(Quotient(qr), qr[FloatLimbs + 1], Sticky)),
                         FloatLimbs))

-----------------------------------------------------------------------------
(* Brand design system (module constants of the script).                   *)

BLACK == <<0, 0, 0>>
WHITE == <<255, 255, 255>>
YELLOW == <<255, 214, 51>>
GRAY_200 == <<179, 179, 179>>
GRAY_300 == <<153, 153, 153>>
GRAY_400 == <<102, 102, 102>>
GRAY_500 == <<51, 51, 51>>
GRAY_600 == <<26, 26, 26>>
GRAY_700 == <<13, 13, 13>>

FONT_PRIMARY == "Inter"

MARGIN == Lit(8, 1)
\* a slide 10 inch wide
SLIDE_WIDTH_narrow == Lit(10, 0)

SLIDE_WIDTH == Lit(13333, 3)
SLIDE_HEIGHT == Lit(75, 1)

-----------------------------------------------------------------------------
(* Python str.  A str is a sequence of tokens: maximal pieces of ordinary  *)
(* text, and the line-break characters "\n" and "\v" each as a token of    *)
(* its own, which is what the library's paragraph text setter splits on.   *)

NEWLINE == "\n"
VTAB == "\\v"
IsBreak(tok) == tok = NEWLINE \/ tok = VTAB

Str(t) == IF t = "" THEN <<>> ELSE <<t>>

\* a + b on str
StrCat(a, b) ==
    IF a = <<>> THEN b
    ELSE IF b = <<>> THEN a
    ELSE IF IsBreak(a[Len(a)]) \/ IsBreak(b[1]) THEN a \o b
    ELSE SubSeq(a, 1, Len(a) - 1) \o <<a[Len(a)] \o b[1]>> \o SubSeq(b, 2, Len(b))

RECURSIVE StrJoin(_)
StrJoin(ss) == IF ss = <<>> THEN <<>> ELSE StrCat(ss[1], StrJoin(Tail(ss)))

-----------------------------------------------------------------------------
(* The library's object model, as far as the script touches it.            *)

NoFont == [size |-> None, color |-> None, name |-> None, bold |-> None, italic |-> None]

EmptyParagraph ==
    [content |-> <<>>, font |-> NoFont, alignment |-> None,
     space_before |-> None, space_after |-> None]

\* a new shape's text frame holds one empty paragraph
NewTextFrame ==
    [word_wrap |-> None, auto_size |-> None, anchor |-> None,
     paragraphs |-> <<EmptyParagraph>>]

Run(text, font) == [tag |-> "r", text |-> text, font |-> font]
LineBreak == [tag |-> "br", text |-> <<VTAB>>, font |-> NoFont]

\* paragraph.text = text: the old content is dropped; every line-break
\* character becomes a break element, every non-empty piece between them a run
append_text(text) ==
    [i \in 1..Len(text) |->
        IF IsBreak(text[i]) THEN LineBreak ELSE Run(<<text[i]>>, NoFont)]

\* paragraph.text read back: the run texts in order, "\v" for a break element
paragraph_text(p) == StrJoin([i \in 1..Len(p.content) |-> p.content[i].text])

\* the run elements of a paragraph, in order
RECURSIVE runs_of(_)
runs_of(content) ==
    IF content = <<>> THEN <<>>
    ELSE (IF content[1].tag = "r" THEN <<content[1]>> ELSE <<>>) \o runs_of(Tail(content))

NoFill == [type |-> "inherit", rgb |-> None]
solid(rgb) == [type |-> "solid", rgb |-> Some(rgb)]

DefaultLine == [fill |-> "inherit", rgb |-> None, width |-> None]
NoLine == [fill |-> "background", rgb |-> None, width |-> None]
SolidLine(rgb, width) == [fill |-> "solid", rgb |-> Some(rgb), width |-> Some(width)]

\* add_textbox taking the width for the height and the height for the width
add_textbox_transposed(left, top, width, height) ==
    [shape_type |-> "TEXT_BOX", auto_shape_type |-> "NONE",
     left |-> left, top |-> top, width |-> height, height |-> width,
     fill |-> NoFill, line |-> DefaultLine, avLst |-> Some(<<>>),
     text_frame |-> NewTextFrame]

\* slide.shapes.add_textbox(left, top, width, height), arguments in EMU
add_textbox(left, top, width, height) ==
    [shape_type |-> "TEXT_BOX", auto_shape_type |-> "NONE",
     left |-> left, top |-> top, width |-> width, height |-> height,
     fill |-> NoFill, line |-> DefaultLine, avLst |-> Some(<<>>),
     text_frame |-> NewTextFrame]

\* slide.shapes.add_shape(kind, left, top, width, height), arguments in EMU;
\* the geometry of a new autoshape carries an empty guide list unless the
\* library build leaves it out
add_shape(kind, left, top, width, height, e) ==
    [shape_type |-> "AUTO_SHAPE", auto_shape_type |-> kind,
     left |-> left, top |-> top, width |-> width, height |-> height,
     fill |-> NoFill, line |-> DefaultLine,
     avLst |-> IF e.avLst_missing THEN None ELSE Some(<<>>),
     text_frame |-> NewTextFrame]

\* try: tf.anchor = anchor / except: pass
try_anchor(tf, anchor, e) ==
    IF e.anchor_fails THEN tf ELSE [tf EXCEPT !.anchor = Some(anchor)]

\* a structural failure caught and ignored, as the styling failures are
Swallowed(shapes) == [shapes |-> shapes, ret |-> None, raised |-> FALSE]

\* outcome of a primitive: the slide's shapes afterwards, the shape returned
\* (its position in the slide's shape list), and whether it raised
Returned(shapes, ret) == [shapes |-> shapes, ret |-> ret, raised |-> FALSE]
Raised(shapes) == [shapes |-> shapes, ret |-> None, raised |-> TRUE]

-----------------------------------------------------------------------------
(* Helper functions of the script.  `shapes` is the shape list of the      *)
(* slide argument, `kw` the keyword arguments given, `e` the library       *)
(* build, `fail` the number of the structural library call that raises     *)
(* (0: none).                                                              *)

\* set_slide_background that never makes the fill solid
set_slide_background_unfilled(slide, color) == slide

\* set_slide_background(slide, color=BLACK)
set_slide_background(slide, color) == [slide EXCEPT !.background = solid(color)]

add_text_box_defaults ==
    [font_size |-> 18, font_color |-> WHITE, font_name |-> FONT_PRIMARY,
     bold |-> FALSE, italic |-> FALSE, align |-> "LEFT", vertical_anchor |-> "TOP"]

\* add_text_box without the try/except around the anchor assignment
add_text_box_unprotected(shapes, left, top, width, height, text, kw, e, fail) ==
    IF fail = 1 \/ e.anchor_fails THEN Raised(shapes)
    ELSE Returned(Append(shapes, add_textbox(Inches(left), Inches(top),
                                             Inches(width), Inches(height))),
                  Some(Len(shapes) + 1))

add_text_box(shapes, left, top, width, height, text, kw, e, fail) ==
    LET a      == kw @@ add_text_box_defaults
        txBox  == add_textbox(Inches(left), Inches(top), Inches(width), Inches(height))
        tf0    == [txBox.text_frame EXCEPT !.word_wrap = Some(TRUE),
                                           !.auto_size = Some(FALSE)]
        tf     == try_anchor(tf0, a.vertical_anchor, e)
        p      == [tf.paragraphs[1] EXCEPT
                      !.content = append_text(text),
                      !.font = [size |-> Some(Pt(a.font_size)),
                                color |-> Some(a.font_color),
                                name |-> Some(a.font_name),
                                bold |-> Some(a.bold),
                                italic |-> Some(a.italic)],
                      !.alignment = Some(a.align)]
        done   == [txBox EXCEPT !.text_frame = [tf EXCEPT !.paragraphs = <<p>>]]
    IN IF fail = 1 THEN Raised(shapes)
       ELSE Returned(Append(shapes, done), Some(Len(shapes) + 1))

add_styled_heading_defaults ==
    [prefix |-> <<>>, accent |-> <<>>, suffix |-> <<>>, font_size |-> 48, align |-> "LEFT"]

\* run styling that makes every run italic
heading_run_all_italic(text, font_size, color, italic) ==
    Run(text, [size |-> Some(Pt(font_size)), color |-> Some(color),
               name |-> Some(FONT_PRIMARY), bold |-> Some(FALSE), italic |-> Some(TRUE)])

heading_run(text, font_size, color, italic) ==
    Run(text, [size |-> Some(Pt(font_size)), color |-> Some(color),
               name |-> Some(FONT_PRIMARY), bold |-> Some(FALSE), italic |-> italic])

add_styled_heading(shapes, left, top, width, height, kw, e, fail) ==
    LET a     == kw @@ add_styled_heading_defaults
        txBox == add_textbox(Inches(left), Inches(top), Inches(width), Inches(height))
        tf    == [txBox.text_frame EXCEPT !.word_wrap = Some(TRUE)]
        r1    == IF a.prefix # <<>>
                 THEN <<heading_run(a.prefix, a.font_size, WHITE, None)>> ELSE <<>>
        r2    == IF a.accent # <<>>
                 THEN <<heading_run(a.accent, a.font_size, YELLOW, Some(TRUE))>> ELSE <<>>
        r3    == IF a.suffix # <<>>
                 THEN <<heading_run(a.suffix, a.font_size, WHITE, None)>> ELSE <<>>
        p     == [tf.paragraphs[1] EXCEPT !.alignment = Some(a.align),
                                          !.content = r1 \o r2 \o r3]
        done  == [txBox EXCEPT !.text_frame = [tf EXCEPT !.paragraphs = <<p>>]]
    IN IF fail = 1 THEN Raised(shapes)
       ELSE Returned(Append(shapes, done), Some(Len(shapes) + 1))

add_bullet_list_defaults == [font_size |-> 18, font_color |-> GRAY_200]

BULLET == "→  "

\* paragraph styling of add_bullet_list without the marker glyph
bullet_paragraph_unmarked(p, item, a) ==
    [p EXCEPT !.content = append_text(item),
              !.font = [size |-> Some(Pt(a.font_size)), color |-> Some(a.font_color),
                        name |-> Some(FONT_PRIMARY), bold |-> None, italic |-> None],
              !.space_before = Some(Pt(12)),
              !.space_after = Some(Pt(6))]

bullet_paragraph(p, item, a) ==
    [p EXCEPT !.content = append_text(StrCat(Str(BULLET), item)),
              !.font = [size |-> Some(Pt(a.font_size)), color |-> Some(a.font_color),
                        name |-> Some(FONT_PRIMARY), bold |-> None, italic |-> None],
              !.space_before = Some(Pt(12)),
              !.space_after = Some(Pt(6))]

RECURSIVE bullet_loop(_, _, _, _)
\* the for loop of add_bullet_list from item i on, ps the paragraphs so far
bullet_loop(ps, items, i, a) ==
    IF i > Len(items) THEN ps
    ELSE IF i = 1
         THEN bullet_loop([ps EXCEPT ![1] = bullet_paragraph(ps[1], items[i], a)],
                          items, i + 1, a)
         ELSE bullet_loop(Append(ps, bullet_paragraph(EmptyParagraph, items[i], a)),
                          items, i + 1, a)

add_bullet_list(shapes, left, top, width, height, items, kw, e, fail) ==
    LET a     == kw @@ add_bullet_list_defaults
        txBox == add_textbox(Inches(left), Inches(top), Inches(width), Inches(height))
        tf    == [txBox.text_frame EXCEPT !.word_wrap = Some(TRUE)]
        done  == [txBox EXCEPT !.text_frame =
                     [tf EXCEPT !.paragraphs = bullet_loop(tf.paragraphs, items, 1, a)]]
    IN IF fail = 1 THEN Raised(shapes)
       ELSE Returned(Append(shapes, done), Some(Len(shapes) + 1))

\* the statements of add_card's try block, in order
RadiusSteps ==
    <<"spPr", "prstGeom", "avLst", "parse_avLst", "append_avLst", "parse_gd", "append_gd">>

CornerGuide == [name |-> "adj", fmla |-> "val 15000"]

\* the try/except of add_card dropping the fill when a statement raises
adjust_corner_radius_unfilling(shape, failAt) ==
    IF failAt = 0 THEN shape ELSE [shape EXCEPT !.fill = NoFill]

\* the try/except of add_card: statement number failAt of the block raises
\* (0: none); the statements before it have taken effect, the rest is skipped
adjust_corner_radius(shape, failAt) ==
    LET missing   == shape.avLst = None
        \* statements 4 and 5 run only when the guide list is missing
        stop      == IF ~missing /\ failAt \in {4, 5} THEN 0 ELSE failAt
        ran(n)    == stop = 0 \/ n < stop
        avLst1    == IF missing /\ ran(5) THEN Some(<<>>) ELSE shape.avLst
        avLst2    == IF ran(7) THEN Some(Append(avLst1[1], CornerGuide)) ELSE avLst1
    IN [shape EXCEPT !.avLst = avLst2]

add_card_defaults == [has_border |-> TRUE, border_color |-> GRAY_600]

add_card(shapes, left, top, width, height, kw, e, fail) ==
    LET a      == kw @@ add_card_defaults
        shape0 == add_shape("ROUNDED_RECTANGLE",
                            Inches(left), Inches(top), Inches(width), Inches(height), e)
        shape1 == [shape0 EXCEPT !.fill = solid(GRAY_700)]
        shape2 == IF a.has_border
                  THEN [shape1 EXCEPT !.line = SolidLine(a.border_color, Pt(1))]
                  ELSE [shape1 EXCEPT !.line = NoLine]
        done   == adjust_corner_radius(shape2, e.radius_fails_at)
    IN IF fail = 1 THEN Raised(shapes)
       ELSE Returned(Append(shapes, done), Some(Len(shapes) + 1))

\* the defaults of add_badge with a width of 1.2
add_badge_defaults_narrow == [bg_color |-> YELLOW, text_color |-> BLACK, width |-> Lit(12, 1)]

add_badge_defaults == [bg_color |-> YELLOW, text_color |-> BLACK, width |-> Lit(14, 1)]

add_badge(shapes, left, top, text, kw, e, fail) ==
    LET a      == kw @@ add_badge_defaults
        shape0 == add_shape("ROUNDED_RECTANGLE",
                            Inches(left), Inches(top), Inches(a.width), Inches(Lit(4, 1)), e)
        shape1 == [shape0 EXCEPT !.fill = solid(a.bg_color), !.line = NoLine]
        tf     == try_anchor([shape1.text_frame EXCEPT !.word_wrap = Some(FALSE)],
                             "MIDDLE", e)
        p      == [tf.paragraphs[1] EXCEPT
                      !.content = append_text(text),
                      !.font = [size |-> Some(Pt(12)), color |-> Some(a.text_color),
                                name |-> Some(FONT_PRIMARY), bold |-> Some(TRUE),
                                italic |-> None],
                      !.alignment = Some("CENTER")]
        done   == [shape1 EXCEPT !.text_frame = [tf EXCEPT !.paragraphs = <<p>>]]
    IN IF fail = 1 THEN Raised(shapes)
       ELSE Returned(Append(shapes, done), Some(Len(shapes) + 1))

\* add_stat_box drawing the card only
add_stat_box_card_only(shapes, left, top, width, height, number, label, e, fail) ==
    add_card(shapes, left, top, width, height,
             [has_border |-> TRUE, border_color |-> YELLOW], e, IF fail = 1 THEN 1 ELSE 0)

\* add_stat_box makes three structural calls: the card, the number, the label;
\* each call works on the slide as the call before it left it, and a call that
\* raises ends add_stat_box
add_stat_box(shapes, left, top, width, height, number, label, e, fail) ==
    Bind(add_card(shapes, left, top, width, height,
                  [has_border |-> TRUE, border_color |-> YELLOW], e,
                  IF fail = 1 THEN 1 ELSE 0),
         LAMBDA card :
    IF card.raised THEN card ELSE
    Bind(add_text_box(card.shapes, left, FAdd(top, Lit(2, 1)), width, Lit(6, 1), number,
                      [font_size |-> 36, font_color |-> YELLOW, bold |-> FALSE,
                       align |-> "CENTER"], e,
                      IF fail = 2 THEN 1 ELSE 0),
         LAMBDA num :
    IF num.raised THEN num ELSE
    Bind(add_text_box(num.shapes, left, FAdd(top, Lit(7, 1)), width, Lit(4, 1), label,
                      [font_size |-> 14, font_color |-> GRAY_300, align |-> "CENTER"], e,
                      IF fail = 3 THEN 1 ELSE 0),
         LAMBDA lab :
    IF lab.raised THEN lab ELSE Returned(lab.shapes, card.ret))))

\* add_flow_arrow returns nothing
add_flow_arrow(shapes, left, top, e, fail) ==
    LET r == add_text_box(shapes, left, top, Lit(6, 1), Lit(5, 1), Str("→"),
                          [font_size |-> 28, font_color |-> YELLOW, align |-> "CENTER"],
                          e, fail)
    IN IF r.raised THEN r ELSE Returned(r.shapes, None)

\* add_flow_box drawing the border whatever the highlight flag
add_flow_box_bordered(shapes, left, top, width, text, is_highlight, e, fail) ==
    LET shape0 == add_shape("ROUNDED_RECTANGLE",
                            Inches(left), Inches(top), Inches(width), Inches(Lit(6, 1)), e)
        shape1 == [shape0 EXCEPT !.fill = solid(IF is_highlight THEN YELLOW ELSE GRAY_700),
                                 !.line = SolidLine(YELLOW, Pt(1))]
        tf     == try_anchor(shape1.text_frame, "MIDDLE", e)
        p      == [tf.paragraphs[1] EXCEPT
                      !.content = append_text(text),
                      !.font = [size |-> Some(Pt(13)),
                                color |-> Some(IF is_highlight THEN BLACK ELSE WHITE),
                                name |-> Some(FONT_PRIMARY), bold |-> Some(is_highlight),
                                italic |-> None],
                      !.alignment = Some("CENTER")]
        done   == [shape1 EXCEPT !.text_frame = [tf EXCEPT !.paragraphs = <<p>>]]
    IN IF fail = 1 THEN Raised(shapes)
       ELSE Returned(Append(shapes, done), Some(Len(shapes) + 1))

add_flow_box(shapes, left, top, width, text, is_highlight, e, fail) ==
    LET bg_color     == IF is_highlight THEN YELLOW ELSE GRAY_700
        text_color   == IF is_highlight THEN BLACK ELSE WHITE
        border_color == IF ~is_highlight THEN Some(YELLOW) ELSE None
        shape0 == add_shape("ROUNDED_RECTANGLE",
                            Inches(left), Inches(top), Inches(width), Inches(Lit(6, 1)), e)
        shape1 == [shape0 EXCEPT !.fill = solid(bg_color)]
        shape2 == IF border_color # None /\ ~is_highlight
                  THEN [shape1 EXCEPT !.line = SolidLine(border_color[1], Pt(1))]
                  ELSE [shape1 EXCEPT !.line = NoLine]
        tf     == try_anchor(shape2.text_frame, "MIDDLE", e)
        p      == [tf.paragraphs[1] EXCEPT
                      !.content = append_text(text),
                      !.font = [size |-> Some(Pt(13)), color |-> Some(text_color),
                                name |-> Some(FONT_PRIMARY), bold |-> Some(is_highlight),
                                italic |-> None],
                      !.alignment = Some("CENTER")]
        done   == [shape2 EXCEPT !.text_frame = [tf EXCEPT !.paragraphs = <<p>>]]
    IN IF fail = 1 THEN Raised(shapes)
       ELSE Returned(Append(shapes, done), Some(Len(shapes) + 1))

\* the inline accent lines and markers of slides 1, 11 and 12: a RECTANGLE
\* with a solid YELLOW fill and no outline
add_yellow_rectangle(shapes, left, top, width, height, e, fail) ==
    LET shape0 == add_shape("RECTANGLE",
                            Inches(left), Inches(top), Inches(width), Inches(height), e)
        done   == [shape0 EXCEPT !.fill = solid(YELLOW), !.line = NoLine]
    IN IF fail = 1 THEN Raised(shapes)
       ELSE Returned(Append(shapes, done), Some(Len(shapes) + 1))

\* the inline number circle of slide 9
add_number_circle(shapes, y, num, e, fail) ==
    LET shape0 == add_shape("OVAL", Inches(Lit(8, 1)), Inches(y),
                            Inches(Lit(45, 2)), Inches(Lit(45, 2)), e)
        shape1 == [shape0 EXCEPT !.fill = solid(YELLOW), !.line = NoLine]
        tf     == try_anchor(shape1.text_frame, "MIDDLE", e)
        p      == [tf.paragraphs[1] EXCEPT
                      !.content = append_text(num),
                      !.font = [size |-> Some(Pt(16)), color |-> Some(BLACK),
                                name |-> None, bold |-> Some(TRUE), italic |-> None],
                      !.alignment = Some("CENTER")]
        done   == [shape1 EXCEPT !.text_frame = [tf EXCEPT !.paragraphs = <<p>>]]
    IN IF fail = 1 THEN Raised(shapes)
       ELSE Returned(Append(shapes, done), Some(Len(shapes) + 1))

-----------------------------------------------------------------------------
(* The body of create_presentation as a list of statements.  A statement   *)
(* names the operation, the slide variable it is applied to (slide<k>),    *)
(* and the arguments as the script computes them.  The for loops are       *)
(* unrolled in iteration order.  Three glyphs of the script's texts that   *)
(* the TLA+ lexer rejects are spelled in ASCII: the em dash as "--", the   *)
(* bullet as "*", the check mark as "[x]".                                 *)

Stmt(op, k, args) == [op |-> op, slide |-> k, args |-> args]

RECURSIVE Flatten(_)
Flatten(ss) == IF ss = <<>> THEN <<>> ELSE ss[1] \o Flatten(Tail(ss))

\* for i in range(n): body(i)
Loop(n, body(_)) == Flatten([i \in 1..n |-> body(i - 1)])

NoKw == <<>>

NewSlide(k) == <<Stmt("add_slide", k, <<>>), Stmt("set_slide_background", k, <<>>)>>

TextBox(k, left, top, width, height, text, kw) ==
    Stmt("add_text_box", k, [left |-> left, top |-> top, width |-> width,
                             height |-> height, text |-> Str(text), kw |-> kw])
Heading(k, left, top, width, height, kw) ==
    Stmt("add_styled_heading", k, [left |-> left, top |-> top, width |-> width,
                                   height |-> height, kw |-> kw])
Badge(k, left, top, text, kw) ==
    Stmt("add_badge", k, [left |-> left, top |-> top, text |-> Str(text), kw |-> kw])
Card(k, left, top, width, height, kw) ==
    Stmt("add_card", k, [left |-> left, top |-> top, width |-> width,
                         height |-> height, kw |-> kw])
YellowRectangle(k, left, top, width, height) ==
    Stmt("add_yellow_rectangle", k, [left |-> left, top |-> top, width |-> width,
                                     height |-> height])

\* SLIDE_WIDTH - 2*MARGIN
ContentWidth == FSub(SLIDE_WIDTH, FMul(FromInt(2), MARGIN))

Slide1 ==
    NewSlide(1) \o
    << YellowRectangle(1, MARGIN, Lit(4, 1), ContentWidth, Lit(3, 2)),
       TextBox(1, MARGIN, Lit(18, 1), ContentWidth, Lit(12, 1), "TAGO",
               [font_size |-> 120, font_color |-> WHITE, bold |-> FALSE, align |-> "CENTER"]),
       TextBox(1, MARGIN, Lit(32, 1), ContentWidth, Lit(9, 1), "LEAP",
               [font_size |-> 80, font_color |-> YELLOW, italic |-> TRUE, bold |-> FALSE,
                align |-> "CENTER"]),
       TextBox(1, MARGIN, Lit(44, 1), ContentWidth, Lit(5, 1), "Trade ideas, not tokens.",
               [font_size |-> 24, font_color |-> WHITE, italic |-> TRUE, align |-> "CENTER"]),
       TextBox(1, MARGIN, Lit(50, 1), ContentWidth, Lit(4, 1),
               "AI-Powered Narrative Trading on Hyperliquid",
               [font_size |-> 16, font_color |-> GRAY_300, align |-> "CENTER"]),
       Badge(1, Lit(48, 1), Lit(58, 1), "PEAR", NoKw),
       Badge(1, Lit(64, 1), Lit(58, 1), "LI.FI", NoKw),
       Badge(1, Lit(80, 1), Lit(58, 1), "SALT", NoKw),
       TextBox(1, MARGIN, Lit(68, 1), ContentWidth, Lit(3, 1), "Hyperstack Hackathon 2025",
               [font_size |-> 12, font_color |-> GRAY_400, align |-> "CENTER"]),
       YellowRectangle(1, MARGIN, Lit(71, 1), ContentWidth, Lit(3, 2)) >>

stats ==
    << <<"$50B+", "Daily Volume">>, <<"150K+", "Active Traders">>,
       <<"5+ Steps", "To Start Trading">>, <<"0", "Narrative Trading Tools">> >>

problems ==
    << "Bridging from other chains requires multiple transactions",
       "Trading interfaces show tickers, not market narratives",
       "Risk management is entirely manual",
       "Automation tools require giving up custody" >>

Slide2 ==
    NewSlide(2) \o
    << Heading(2, MARGIN, Lit(6, 1), Lit(10, 0), Lit(8, 1),
               [prefix |-> Str("The "), accent |-> Str("Opportunity"), suffix |-> Str(""),
                font_size |-> 48]),
       TextBox(2, MARGIN, Lit(14, 1), Lit(8, 0), Lit(5, 1),
               "Hyperliquid is the fastest-growing perps DEX. But onboarding and trading are still too complex.",
               [font_size |-> 18, font_color |-> GRAY_200, italic |-> TRUE]) >> \o
    Loop(Len(stats), LAMBDA i :
        << Stmt("add_stat_box", 2,
                [left |-> FAdd(Lit(8, 1), FMul(FromInt(i), Lit(31, 1))), top |-> Lit(25, 1),
                 width |-> Lit(28, 1), height |-> Lit(12, 1),
                 number |-> Str(stats[i + 1][1]), label |-> Str(stats[i + 1][2])]) >>) \o
    << TextBox(2, MARGIN, Lit(42, 1), Lit(6, 0), Lit(5, 1), "Current Pain Points",
               [font_size |-> 20, font_color |-> YELLOW, bold |-> FALSE]),
       Stmt("add_bullet_list", 2,
            [left |-> MARGIN, top |-> Lit(48, 1), width |-> Lit(11, 0), height |-> Lit(25, 1),
             items |-> [i \in 1..Len(problems) |-> Str(problems[i])],
             kw |-> [font_size |-> 17]]) >>

problems_data ==
    << <<"Complex Onboarding",
         "Users need 5+ steps to bridge assets and start trading on Hyperliquid", "LI.FI">>,
       <<"Token-Centric Trading",
         "Traders pick tickers, not theses. No way to express 'AI will beat ETH'", "PEAR">>,
       <<"No Automated Safety",
         "Risk management is manual. Automation means giving up custody", "SALT">> >>

card_width == Lit(37, 1)
card_start == Lit(8, 1)
card_gap == Lit(3, 1)
card_x(i) == FAdd(card_start, FMul(FromInt(i), FAdd(card_width, card_gap)))

\* slide 3 with a statement that draws on slide 2
Slide3_drawing_on_slide2 ==
    NewSlide(3) \o
    << TextBox(2, MARGIN, Lit(6, 1), Lit(10, 0), Lit(8, 1), "The Problem", NoKw) >>

Slide3 ==
    NewSlide(3) \o
    << Heading(3, MARGIN, Lit(6, 1), Lit(10, 0), Lit(8, 1),
               [prefix |-> Str("The "), accent |-> Str("Problem"), suffix |-> Str(""),
                font_size |-> 48]) >> \o
    Loop(Len(problems_data), LAMBDA i :
        << Card(3, card_x(i), Lit(18, 1), card_width, Lit(42, 1),
                [has_border |-> TRUE, border_color |-> GRAY_500]),
           Badge(3, FAdd(card_x(i), Lit(2, 1)), Lit(20, 1), problems_data[i + 1][3], NoKw),
           TextBox(3, FAdd(card_x(i), Lit(2, 1)), Lit(26, 1), FSub(card_width, Lit(4, 1)),
                   Lit(8, 1), problems_data[i + 1][1],
                   [font_size |-> 22, font_color |-> WHITE, bold |-> FALSE]),
           TextBox(3, FAdd(card_x(i), Lit(2, 1)), Lit(35, 1), FSub(card_width, Lit(4, 1)),
                   Lit(22, 1), problems_data[i + 1][2],
                   [font_size |-> 15, font_color |-> GRAY_300]) >>) \o
    << TextBox(3, MARGIN, Lit(64, 1), ContentWidth, Lit(5, 1),
               "Traders need a simpler way to onboard, express market views, and automate safely.",
               [font_size |-> 16, font_color |-> GRAY_400, italic |-> TRUE,
                align |-> "CENTER"]) >>

pillars ==
    << <<"PEAR", "Trade Ideas",
         <<"AI-powered narrative trading", "Pair & basket trades", "Bet-slip simplicity">> >>,
       <<"LI.FI", "One-Click Onboard",
         <<"Bridge from any chain", "Auto-deposit to account", "Full route transparency">> >>,
       <<"SALT", "Robo Managers",
         <<"Policy-controlled accounts", "Automated strategies", "100% non-custodial">> >> >>

pillar_width == Lit(35, 1)
pillar_start == Lit(12, 1)
pillar_gap == Lit(6, 1)
pillar_x(i) == FAdd(pillar_start, FMul(FromInt(i), FAdd(pillar_width, pillar_gap)))

Slide4 ==
    NewSlide(4) \o
    << Heading(4, MARGIN, Lit(5, 1), Lit(10, 0), Lit(8, 1),
               [prefix |-> Str("TAGO "), accent |-> Str("Leap"), suffix |-> Str(""),
                font_size |-> 48]),
       TextBox(4, MARGIN, Lit(12, 1), Lit(10, 0), Lit(4, 1),
               "One platform. Three powerful integrations.",
               [font_size |-> 18, font_color |-> GRAY_300, italic |-> TRUE]) >> \o
    Loop(Len(pillars), LAMBDA i :
        << Card(4, pillar_x(i), Lit(20, 1), pillar_width, Lit(40, 1),
                [has_border |-> TRUE, border_color |-> YELLOW]),
           Badge(4, FAdd(pillar_x(i), FHalf(FSub(pillar_width, Lit(14, 1)))), Lit(22, 1),
                 pillars[i + 1][1], NoKw),
           TextBox(4, pillar_x(i), Lit(28, 1), pillar_width, Lit(5, 1), pillars[i + 1][2],
                   [font_size |-> 24, font_color |-> WHITE, align |-> "CENTER"]) >> \o
        Loop(Len(pillars[i + 1][3]), LAMBDA j :
            << Stmt("add_text_box", 4,
                    [left |-> FAdd(pillar_x(i), Lit(3, 1)),
                     top |-> FAdd(Lit(35, 1), FMul(FromInt(j), Lit(6, 1))),
                     width |-> FSub(pillar_width, Lit(6, 1)), height |-> Lit(5, 1),
                     text |-> StrCat(Str("→ "), Str(pillars[i + 1][3][j + 1])),
                     kw |-> [font_size |-> 14, font_color |-> GRAY_200]]) >>)) \o
    << TextBox(4, MARGIN, Lit(64, 1), ContentWidth, Lit(5, 1),
               "\"Trade ideas, not just single tokens\" -- built for Hyperliquid",
               [font_size |-> 14, font_color |-> YELLOW, italic |-> TRUE,
                align |-> "CENTER"]) >>

steps ==
    << "Enter your market thesis in plain English",
       "AI (Claude) generates trade suggestions",
       "Select pair or basket trade structure",
       "Adjust stake, leverage, direction",
       "Execute via Pear Protocol API" >>

features ==
    << "Narrative-first UI (themes, not tickers)",
       "Pair trades: Long A / Short B",
       "Basket trades: Long group vs benchmark",
       "Bet-slip UX (stake → direction → risk)",
       "Full trade logging with metadata" >>

\* the item rows of slides 5, 6 and 7: top = first + i * 0.55
row_top(first, i) == FAdd(first, FMul(FromInt(i), Lit(55, 2)))

\* for i, item in enumerate(items): add_text_box(slide, left, first + i * 0.55,
\*     width, 0.5, f"→  {item}", font_size=14, font_color=GRAY_200)
ArrowRows(k, items, left, first, width) ==
    Loop(Len(items), LAMBDA i :
        << Stmt("add_text_box", k,
                [left |-> left, top |-> row_top(first, i), width |-> width,
                 height |-> Lit(5, 1),
                 text |-> StrCat(Str("→  "), Str(items[i + 1])),
                 kw |-> [font_size |-> 14, font_color |-> GRAY_200]]) >>)

Slide5 ==
    NewSlide(5) \o
    << Badge(5, MARGIN, Lit(5, 1), "PEAR", NoKw),
       Heading(5, FAdd(MARGIN, Lit(16, 1)), Lit(4, 1), Lit(10, 0), Lit(7, 1),
               [prefix |-> Str(""), accent |-> Str("Narrative"),
                suffix |-> Str(" Trading Engine"), font_size |-> 40]),
       TextBox(5, MARGIN, Lit(11, 1), Lit(10, 0), Lit(4, 1),
               "\"Build tools that let people trade ideas, not just single tokens\"",
               [font_size |-> 14, font_color |-> GRAY_400, italic |-> TRUE]),
       TextBox(5, MARGIN, Lit(17, 1), Lit(55, 1), Lit(4, 1), "How It Works",
               [font_size |-> 18, font_color |-> YELLOW]) >> \o
    Loop(Len(steps), LAMBDA i :
        << Stmt("add_text_box", 5,
                [left |-> FAdd(MARGIN, Lit(4, 1)), top |-> row_top(Lit(22, 1), i),
                 width |-> Lit(55, 1), height |-> Lit(5, 1),
                 text |-> StrCat(Str(ToString(i + 1)), StrCat(Str(".  "), Str(steps[i + 1]))),
                 kw |-> [font_size |-> 14, font_color |-> GRAY_200]]) >>) \o
    << TextBox(5, Lit(7, 0), Lit(17, 1), Lit(55, 1), Lit(4, 1), "Key Features",
               [font_size |-> 18, font_color |-> YELLOW]) >> \o
    ArrowRows(5, features, Lit(74, 1), Lit(22, 1), Lit(5, 0)) \o
    << Card(5, MARGIN, Lit(50, 1), ContentWidth, Lit(18, 1),
            [has_border |-> TRUE, border_color |-> YELLOW]),
       TextBox(5, FAdd(MARGIN, Lit(3, 1)), Lit(52, 1), Lit(4, 0), Lit(3, 1), "Example Thesis:",
               [font_size |-> 12, font_color |-> YELLOW]),
       TextBox(5, FAdd(MARGIN, Lit(3, 1)), Lit(55, 1), Lit(11, 0), Lit(5, 1),
               "\"I believe AI tokens will outperform Ethereum over the next month\"",
               [font_size |-> 18, font_color |-> WHITE, italic |-> TRUE]),
       TextBox(5, FAdd(MARGIN, Lit(3, 1)), Lit(61, 1), Lit(11, 0), Lit(4, 1),
               "→  AI suggests: Long RENDER, TAO, FET basket  /  Short ETH benchmark",
               [font_size |-> 15, font_color |-> GRAY_300]) >>

flow_y == Lit(20, 1)
flow_items ==
    << <<"Any Chain", FALSE>>, <<"LI.FI Router", FALSE>>, <<"HyperEVM", FALSE>>,
       <<"Trading Account", TRUE>> >>

\* x_pos advancing by 3.0 per iteration
x_pos_tight(i) == FAdd(Lit(6, 1), FMul(FromInt(i), Lit(3, 0)))

RECURSIVE x_pos(_)
\* x_pos at the start of iteration i: x_pos = 0.6, then x_pos += 3.2 per iteration
x_pos(i) == IF i = 0 THEN Lit(6, 1) ELSE FAdd(x_pos(i - 1), Lit(32, 1))

ux_items ==
    << "Select origin chain + token", "See full route summary & ETA",
       "Track progress in real-time", "Automatic deposit on arrival" >>

tech_items ==
    << "Dedicated lifi-service backend", "GET /onboard/options",
       "POST /onboard/quote & /track", "Reusable deposit component" >>

Slide6 ==
    NewSlide(6) \o
    << Badge(6, MARGIN, Lit(5, 1), "LI.FI", NoKw),
       Heading(6, FAdd(MARGIN, Lit(16, 1)), Lit(4, 1), Lit(10, 0), Lit(7, 1),
               [prefix |-> Str(""), accent |-> Str("One-Click"),
                suffix |-> Str(" Onboarding"), font_size |-> 40]),
       TextBox(6, MARGIN, Lit(11, 1), Lit(10, 0), Lit(4, 1),
               "\"Bridge users from any chain into HyperEVM using LI.FI routing\"",
               [font_size |-> 14, font_color |-> GRAY_400, italic |-> TRUE]) >> \o
    Loop(Len(flow_items), LAMBDA i :
        << Stmt("add_flow_box", 6,
                [left |-> x_pos(i), top |-> flow_y, width |-> Lit(26, 1),
                 text |-> Str(flow_items[i + 1][1]),
                 is_highlight |-> flow_items[i + 1][2]]) >> \o
        (IF i < Len(flow_items) - 1
         THEN << Stmt("add_flow_arrow", 6,
                      [left |-> FAdd(x_pos(i), Lit(26, 1)),
                       top |-> FAdd(flow_y, Lit(5, 2))]) >>
         ELSE << >>)) \o
    << TextBox(6, MARGIN, Lit(30, 1), Lit(55, 1), Lit(4, 1), "User Experience",
               [font_size |-> 18, font_color |-> YELLOW]) >> \o
    ArrowRows(6, ux_items, FAdd(MARGIN, Lit(4, 1)), Lit(35, 1), Lit(5, 0)) \o
    << TextBox(6, Lit(7, 0), Lit(30, 1), Lit(55, 1), Lit(4, 1), "Technical Implementation",
               [font_size |-> 18, font_color |-> YELLOW]) >> \o
    ArrowRows(6, tech_items, Lit(74, 1), Lit(35, 1), Lit(5, 0)) \o
    << Stmt("add_stat_box", 6,
            [left |-> Lit(45, 1), top |-> Lit(57, 1), width |-> Lit(43, 1),
             height |-> Lit(12, 1), number |-> Str("1 Click"),
             label |-> Str("From Any Chain to Trading")]) >>

policies ==
    << "Max Leverage: 1-10x limit", "Daily Notional: $100 - $1M cap",
       "Max Drawdown: 1-50% protection", "Allowed Pairs: Whitelist only" >>

strategies ==
    << "Mean Reversion: AI vs ETH", "SOL Ecosystem vs BTC", "DeFi Momentum plays",
       "60-second strategy loop" >>

Slide7 ==
    NewSlide(7) \o
    << Badge(7, MARGIN, Lit(5, 1), "SALT", NoKw),
       Heading(7, FAdd(MARGIN, Lit(16, 1)), Lit(4, 1), Lit(10, 0), Lit(7, 1),
               [prefix |-> Str(""), accent |-> Str("Policy-Controlled"),
                suffix |-> Str(" Robo Managers"), font_size |-> 40]),
       TextBox(7, MARGIN, Lit(11, 1), Lit(10, 0), Lit(4, 1),
               "\"Automate and manage capital without ever taking custody\"",
               [font_size |-> 14, font_color |-> GRAY_400, italic |-> TRUE]),
       TextBox(7, MARGIN, Lit(17, 1), Lit(55, 1), Lit(4, 1), "Policy Controls",
               [font_size |-> 18, font_color |-> YELLOW]) >> \o
    ArrowRows(7, policies, FAdd(MARGIN, Lit(4, 1)), Lit(22, 1), Lit(5, 0)) \o
    << TextBox(7, Lit(7, 0), Lit(17, 1), Lit(55, 1), Lit(4, 1), "Automated Strategies",
               [font_size |-> 18, font_color |-> YELLOW]) >> \o
    ArrowRows(7, strategies, Lit(74, 1), Lit(22, 1), Lit(5, 0)) \o
    << Card(7, MARGIN, Lit(46, 1), ContentWidth, Lit(22, 1),
            [has_border |-> TRUE, border_color |-> YELLOW]),
       TextBox(7, FAdd(MARGIN, Lit(4, 1)), Lit(49, 1), Lit(11, 0), Lit(5, 1),
               "NON-CUSTODIAL BY DESIGN", [font_size |-> 24, font_color |-> YELLOW]),
       TextBox(7, FAdd(MARGIN, Lit(4, 1)), Lit(55, 1), Lit(11, 0), Lit(1, 0),
               "Your funds stay in YOUR policy-controlled account. The robo manager only instructs trades under strict rules -- it never holds your assets. Full audit trail in strategy_runs.",
               [font_size |-> 16, font_color |-> GRAY_200]) >>

\* the service descriptions hold newlines: "Next.js 14\nRainbowKit\nTailwind CSS"
services ==
    << <<"Frontend", <<"Next.js 14", NEWLINE, "RainbowKit", NEWLINE, "Tailwind CSS">> >>,
       <<"pear-service", <<"Claude AI", NEWLINE, "Pear Protocol", NEWLINE, "Trade Execution">> >>,
       <<"lifi-service", <<"LI.FI SDK", NEWLINE, "Route Optimization", NEWLINE, "Deposit Flow">> >>,
       <<"salt-service", <<"Salt SDK", NEWLINE, "Policy Engine", NEWLINE, "Strategy Loop">> >> >>

box_width == Lit(26, 1)
box_start == Lit(9, 1)
box_gap == Lit(5, 1)
box_x(i) == FAdd(box_start, FMul(FromInt(i), FAdd(box_width, box_gap)))

externals == <<"Hyperliquid", "Pear Protocol", "LI.FI", "Salt">>
ext_start == Lit(15, 1)
ext_gap == Lit(28, 1)

Slide8 ==
    NewSlide(8) \o
    << Heading(8, MARGIN, Lit(5, 1), Lit(10, 0), Lit(7, 1),
               [prefix |-> Str(""), accent |-> Str("Architecture"), suffix |-> Str(""),
                font_size |-> 44]) >> \o
    Loop(Len(services), LAMBDA i :
        << Card(8, box_x(i), Lit(15, 1), box_width, Lit(22, 1),
                [has_border |-> TRUE, border_color |-> YELLOW]),
           TextBox(8, box_x(i), Lit(17, 1), box_width, Lit(4, 1), services[i + 1][1],
                   [font_size |-> 14, font_color |-> YELLOW, align |-> "CENTER"]),
           Stmt("add_text_box", 8,
                [left |-> FAdd(box_x(i), Lit(2, 1)), top |-> Lit(22, 1),
                 width |-> FSub(box_width, Lit(4, 1)), height |-> Lit(13, 1),
                 text |-> services[i + 1][2],
                 kw |-> [font_size |-> 11, font_color |-> GRAY_200, align |-> "CENTER"]]) >>) \o
    << TextBox(8, MARGIN, Lit(40, 1), Lit(10, 0), Lit(4, 1), "External Integrations",
               [font_size |-> 16, font_color |-> GRAY_400]) >> \o
    Loop(Len(externals), LAMBDA i :
        << Badge(8, FAdd(ext_start, FMul(FromInt(i), ext_gap)), Lit(45, 1), externals[i + 1],
                 [bg_color |-> YELLOW, text_color |-> BLACK, width |-> Lit(22, 1)]) >>) \o
    << TextBox(8, MARGIN, Lit(54, 1), Lit(10, 0), Lit(3, 1), "Tech Stack",
               [font_size |-> 14, font_color |-> GRAY_400]),
       TextBox(8, MARGIN, Lit(58, 1), ContentWidth, Lit(4, 1),
               "TypeScript  *  Turborepo  *  Fastify  *  Supabase  *  Anthropic Claude  *  Viem/Wagmi  *  pnpm",
               [font_size |-> 14, font_color |-> GRAY_200, align |-> "CENTER"]) >>

demo_steps ==
    << <<"1", "Onboard", "Bridge USDC via LI.FI", "LI.FI">>,
       <<"2", "Connect", "Wallet auto-deposits", "LI.FI">>,
       <<"3", "Thesis", "Enter market view", "PEAR">>,
       <<"4", "Trade", "AI suggests pair trade", "PEAR">>,
       <<"5", "Execute", "Trade via Pear API", "PEAR">>,
       <<"6", "Automate", "Enable robo manager", "SALT">> >>

y_pos == Lit(18, 1)
row_height == Lit(85, 2)
demo_y(i) == FAdd(y_pos, FMul(FromInt(i), row_height))

Slide9 ==
    NewSlide(9) \o
    << Heading(9, MARGIN, Lit(5, 1), Lit(10, 0), Lit(7, 1),
               [prefix |-> Str(""), accent |-> Str("Demo"), suffix |-> Str(" Flow"),
                font_size |-> 44]),
       TextBox(9, MARGIN, Lit(11, 1), Lit(10, 0), Lit(4, 1),
               "End-to-end:  Onboard  →  Trade  →  Automate",
               [font_size |-> 16, font_color |-> YELLOW, italic |-> TRUE]) >> \o
    Loop(Len(demo_steps), LAMBDA i :
        << Stmt("add_number_circle", 9,
                [y |-> demo_y(i), num |-> Str(demo_steps[i + 1][1])]),
           TextBox(9, Lit(15, 1), FSub(demo_y(i), Lit(5, 2)), Lit(2, 0), Lit(45, 2),
                   demo_steps[i + 1][2], [font_size |-> 18, font_color |-> YELLOW]),
           TextBox(9, Lit(35, 1), demo_y(i), Lit(7, 0), Lit(45, 2),
                   demo_steps[i + 1][3], [font_size |-> 15, font_color |-> GRAY_200]),
           Badge(9, Lit(11, 0), FAdd(demo_y(i), Lit(2, 2)), demo_steps[i + 1][4], NoKw) >>)

checklists ==
    << <<"PEAR",
         <<"[x] Trade UI starts from ideas/themes", "[x] Pair + basket trades wired live",
           "[x] Narrative metadata logged", "[x] Bet-slip UX design",
           "[x] Automation routes to service">> >>,
       <<"LI.FI",
         <<"[x] lifi-service endpoints exposed", "[x] Composable deposit component",
           "[x] Quote, ETA, route shown", "[x] Progress & error states",
           "[x] Mobile responsive">> >>,
       <<"SALT",
         <<"[x] Account/policy endpoints", "[x] Strategy loop runs periodically",
           "[x] Policy limits enforced", "[x] Frontend shows all state",
           "[x] Non-custodial design">> >> >>

col_width == Lit(38, 1)
col_start == Lit(8, 1)
col_gap == Lit(3, 1)
col_x(i) == FAdd(col_start, FMul(FromInt(i), FAdd(col_width, col_gap)))

Slide10 ==
    NewSlide(10) \o
    << Heading(10, MARGIN, Lit(5, 1), Lit(10, 0), Lit(7, 1),
               [prefix |-> Str("Bounty "), accent |-> Str("Requirements"),
                suffix |-> Str(""), font_size |-> 44]),
       TextBox(10, MARGIN, Lit(11, 1), Lit(10, 0), Lit(4, 1),
               "All acceptance criteria satisfied",
               [font_size |-> 16, font_color |-> YELLOW, italic |-> TRUE]) >> \o
    Loop(Len(checklists), LAMBDA i :
        << Badge(10, col_x(i), Lit(17, 1), checklists[i + 1][1], NoKw) >> \o
        Loop(Len(checklists[i + 1][2]), LAMBDA j :
            << TextBox(10, col_x(i), row_top(Lit(23, 1), j), col_width, Lit(5, 1),
                       checklists[i + 1][2][j + 1],
                       [font_size |-> 13, font_color |-> GRAY_200]) >>)) \o
    << TextBox(10, MARGIN, Lit(55, 1), ContentWidth, Lit(6, 1),
               "TAGO Leap delivers on ALL THREE bounties",
               [font_size |-> 22, font_color |-> WHITE, align |-> "CENTER"]),
       TextBox(10, MARGIN, Lit(61, 1), ContentWidth, Lit(4, 1),
               "with a cohesive, production-ready platform",
               [font_size |-> 16, font_color |-> GRAY_300, align |-> "CENTER"]) >>

differentiators ==
    << <<"Innovation", "First narrative trading platform on Hyperliquid">>,
       <<"Integration", "Seamlessly combines PEAR + LI.FI + SALT">>,
       <<"User Experience", "Bet-slip simplicity, not trading terminal complexity">>,
       <<"Safety", "Non-custodial robo managers with policy enforcement">>,
       <<"Accessibility", "One-click onboarding from any blockchain">>,
       <<"Production Ready", "Clean architecture, comprehensive documentation">> >>

RECURSIVE diff_y(_)
\* y at the start of iteration i: y = 1.5, then y += 0.8 per iteration
diff_y(i) == IF i = 0 THEN Lit(15, 1) ELSE FAdd(diff_y(i - 1), Lit(8, 1))

Slide11 ==
    NewSlide(11) \o
    << Heading(11, MARGIN, Lit(5, 1), Lit(10, 0), Lit(7, 1),
               [prefix |-> Str("Why "), accent |-> Str("TAGO Leap"), suffix |-> Str(""),
                font_size |-> 44]) >> \o
    Loop(Len(differentiators), LAMBDA i :
        << YellowRectangle(11, MARGIN, FAdd(diff_y(i), Lit(15, 2)), Lit(8, 2), Lit(4, 1)),
           TextBox(11, FAdd(MARGIN, Lit(3, 1)), diff_y(i), Lit(35, 1), Lit(5, 1),
                   differentiators[i + 1][1], [font_size |-> 20, font_color |-> YELLOW]),
           TextBox(11, Lit(45, 1), FAdd(diff_y(i), Lit(5, 2)), Lit(8, 0), Lit(5, 1),
                   differentiators[i + 1][2],
                   [font_size |-> 17, font_color |-> GRAY_200]) >>) \o
    << TextBox(11, MARGIN, Lit(65, 1), ContentWidth, Lit(5, 1),
               "\"Trade ideas, not just single tokens\" -- Pear Protocol Vision",
               [font_size |-> 14, font_color |-> GRAY_400, italic |-> TRUE,
                align |-> "CENTER"]) >>

\* a script without the statements of slide 12
Slide12_left_out == << >>

Slide12 ==
    NewSlide(12) \o
    << YellowRectangle(12, MARGIN, Lit(4, 1), ContentWidth, Lit(3, 2)),
       TextBox(12, MARGIN, Lit(12, 1), ContentWidth, Lit(1, 0), "TAGO",
               [font_size |-> 100, font_color |-> WHITE, align |-> "CENTER"]),
       TextBox(12, MARGIN, Lit(24, 1), ContentWidth, Lit(8, 1), "LEAP",
               [font_size |-> 70, font_color |-> YELLOW, italic |-> TRUE,
                align |-> "CENTER"]),
       TextBox(12, MARGIN, Lit(35, 1), ContentWidth, Lit(5, 1),
               "The future of narrative trading is here.",
               [font_size |-> 22, font_color |-> WHITE, italic |-> TRUE,
                align |-> "CENTER"]),
       Badge(12, Lit(35, 1), Lit(44, 1), "PEAR [x]", [width |-> Lit(2, 0)]),
       Badge(12, Lit(58, 1), Lit(44, 1), "LI.FI [x]", [width |-> Lit(2, 0)]),
       Badge(12, Lit(81, 1), Lit(44, 1), "SALT [x]", [width |-> Lit(2, 0)]),
       Card(12, Lit(3, 0), Lit(52, 1), Lit(7333, 3), Lit(13, 1),
            [has_border |-> TRUE, border_color |-> YELLOW]),
       TextBox(12, Lit(32, 1), Lit(54, 1), Lit(7, 0), Lit(4, 1), "The Ask",
               [font_size |-> 16, font_color |-> YELLOW]),
       TextBox(12, Lit(32, 1), Lit(58, 1), Lit(7, 0), Lit(6, 1),
               "Award TAGO Leap the PEAR, LI.FI, and SALT bounties",
               [font_size |-> 18, font_color |-> WHITE, align |-> "CENTER"]),
       TextBox(12, MARGIN, Lit(68, 1), ContentWidth, Lit(4, 1), "Thank you!",
               [font_size |-> 28, font_color |-> WHITE, align |-> "CENTER"]),
       YellowRectangle(12, MARGIN, Lit(71, 1), ContentWidth, Lit(3, 2)) >>

output_path == "/Users/kevinapetrei/hyperstack/TAGO_Leap_Pitch_Deck.pptx"

\* the closing statements with the confirmation printed before the save
Finish_printing_first ==
    << Stmt("print", 0, [line |-> "[x] Presentation saved to: " \o output_path]),
       Stmt("save", 0, [path |-> output_path]),
       Stmt("return", 0, [value |-> output_path]) >>

Finish ==
    << Stmt("save", 0, [path |-> output_path]),
       Stmt("print", 0, [line |-> "[x] Presentation saved to: " \o output_path]),
       Stmt("print", 0, [line |-> "  * 12 slides"]),
       Stmt("print", 0, [line |-> "  * Inter font family"]),
       Stmt("print", 0, [line |-> "  * Black/White/Yellow branding"]),
       Stmt("print", 0, [line |-> "  * All 3 bounties covered"]),
       Stmt("return", 0, [value |-> output_path]) >>

Program ==
    << Stmt("Presentation", 0, <<>>) >> \o
    Slide1 \o Slide2 \o Slide3 \o Slide4 \o Slide5 \o Slide6 \o
    Slide7 \o Slide8 \o Slide9 \o Slide10 \o Slide11 \o Slide12 \o
    Finish

-----------------------------------------------------------------------------
(* The run of create_presentation.                                         *)

\* what the library build does with the optional styling calls: whether
\* setting a text frame's anchor raises, which statement of add_card's try
\* block raises (0: none), whether a new autoshape lacks the guide list
Envs ==
    [anchor_fails : BOOLEAN, radius_fails_at : 0..Len(RadiusSteps),
     avLst_missing : BOOLEAN]

NoCall ==
    [op |-> "none", stmt |-> 0, slide |-> 0, args |-> <<>>, fail |-> 0,
     before |-> 0, ret |-> None, raised |-> FALSE]

NumSlideVars == 12

Init ==
    /\ code = Program
    /\ pc = 1
    /\ prs = None
    /\ slideVar = [k \in 1..NumSlideVars |-> 0]
    /\ err = "none"
    /\ files = <<>>
    /\ stdout = <<>>
    /\ result = None
    /\ env \in Envs
    /\ last = NoCall

Running == err = "none" /\ pc >= 1 /\ pc <= Len(code)
At(op) == Running /\ code[pc].op = op

\* Presentation() starting from the slides of the file written before
Presentation_from_output ==
    [slide_width |-> 9144000, slide_height |-> 6858000,
     slides |-> IF files = <<>> THEN <<>> ELSE files[Len(files)].doc.slides]

\* Presentation() with the default template: no slides
Presentation == [slide_width |-> 9144000, slide_height |-> 6858000, slides |-> <<>>]

\* a statement that is not a helper call: its record in `last`
Plain(op, fail) ==
    [op |-> op, stmt |-> pc, slide |-> 0, args |-> <<>>, fail |-> fail,
     before |-> 0, ret |-> None, raised |-> fail # 0]

\* prs = Presentation(); prs.slide_width = ...; prs.slide_height = ...
CreateDocument ==
    /\ At("Presentation")
    /\ \E fail \in 0..1 :
          /\ last' = Plain("Presentation", fail)
          /\ IF fail = 1
             THEN err' = "raised" /\ UNCHANGED <<pc, prs>>
             ELSE /\ prs' = Some([Presentation EXCEPT
                                     !.slide_width = Inches(SLIDE_WIDTH),
                                     !.slide_height = Inches(SLIDE_HEIGHT)])
                  /\ pc' = pc + 1
                  /\ err' = err
    /\ UNCHANGED <<code, slideVar, files, stdout, result, env>>

\* add_slide putting the new slide in front of the existing ones
add_slide_at_front(slides) ==
    [slides |-> <<[slide_id |-> 256 + Len(slides), background |-> NoFill,
                   shapes |-> <<>>]>> \o slides,
     ret |-> 1]

\* add_slide putting the new slide in the place of the newest one
add_slide_over_last(slides) ==
    [slides |-> SubSeq(slides, 1, Len(slides) - 1)
                \o <<[slide_id |-> 256 + Len(slides), background |-> NoFill,
                      shapes |-> <<>>]>>,
     ret |-> Max(1, Len(slides))]

\* prs.slides.add_slide(layout): a blank slide is appended and returned
add_slide(slides) ==
    [slides |-> Append(slides, [slide_id |-> 256 + Len(slides),
                                background |-> NoFill, shapes |-> <<>>]),
     ret |-> Len(slides) + 1]

\* slide<k> = prs.slides.add_slide(prs.slide_layouts[6])
AddSlide ==
    /\ At("add_slide")
    /\ \E fail \in 0..1 :
          /\ last' = Plain("add_slide", fail)
          /\ IF fail = 1
             THEN err' = "raised" /\ UNCHANGED <<pc, prs, slideVar>>
             ELSE LET r == add_slide(prs[1].slides)
                  IN /\ prs' = Some([prs[1] EXCEPT !.slides = r.slides])
                     /\ slideVar' = [slideVar EXCEPT ![code[pc].slide] = r.ret]
                     /\ pc' = pc + 1
                     /\ err' = err
    /\ UNCHANGED <<code, files, stdout, result, env>>

\* set_slide_background(slide<k>)
SetSlideBackground ==
    /\ At("set_slide_background")
    /\ LET idx == slideVar[code[pc].slide]
       IN prs' = Some([prs[1] EXCEPT
                          !.slides[idx] = set_slide_background(prs[1].slides[idx], BLACK)])
    /\ pc' = pc + 1
    /\ last' = Plain("set_slide_background", 0)
    /\ UNCHANGED <<code, slideVar, err, files, stdout, result, env>>

\* the helpers called with the arguments a of a statement
text_box_call(shapes, a, e, fail) ==
    add_text_box(shapes, a.left, a.top, a.width, a.height, a.text, a.kw, e, fail)
styled_heading_call(shapes, a, e, fail) ==
    add_styled_heading(shapes, a.left, a.top, a.width, a.height, a.kw, e, fail)
bullet_list_call(shapes, a, e, fail) ==
    add_bullet_list(shapes, a.left, a.top, a.width, a.height, a.items, a.kw, e, fail)
card_call(shapes, a, e, fail) ==
    add_card(shapes, a.left, a.top, a.width, a.height, a.kw, e, fail)
badge_call(shapes, a, e, fail) ==
    add_badge(shapes, a.left, a.top, a.text, a.kw, e, fail)
stat_box_call(shapes, a, e, fail) ==
    add_stat_box(shapes, a.left, a.top, a.width, a.height, a.number, a.label, e, fail)
flow_arrow_call(shapes, a, e, fail) ==
    add_flow_arrow(shapes, a.left, a.top, e, fail)
flow_box_call(shapes, a, e, fail) ==
    add_flow_box(shapes, a.left, a.top, a.width, a.text, a.is_highlight, e, fail)
yellow_rectangle_call(shapes, a, e, fail) ==
    add_yellow_rectangle(shapes, a.left, a.top, a.width, a.height, e, fail)
number_circle_call(shapes, a, e, fail) ==
    add_number_circle(shapes, a.y, a.num, e, fail)

\* the number of structural library calls a helper makes
StructuralCalls(op) == IF op = "add_stat_box" THEN 3 ELSE 1

\* a call of helper op, with arguments a, on the slide at index idx; helper
\* is the helper applied to a shape list; control moves to next unless the
\* call raises
Call(op, helper(_, _, _, _), idx, a, fail, next) ==
    \E r \in {helper(prs[1].slides[idx].shapes, a, env, fail)} :
       /\ prs' = Some([prs[1] EXCEPT !.slides[idx].shapes = r.shapes])
       /\ err' = IF r.raised THEN "raised" ELSE err
       /\ pc' = IF r.raised THEN pc ELSE next
       /\ last' = [op |-> op, stmt |-> pc, slide |-> idx, args |-> a, fail |-> fail,
                   before |-> Len(prs[1].slides[idx].shapes),
                   ret |-> r.ret, raised |-> r.raised]
       /\ UNCHANGED <<code, slideVar, files, stdout, result, env>>

\* the statement at pc is a call of helper op
Step(op, helper(_, _, _, _)) ==
    \E fail \in 0..StructuralCalls(op) :
        Call(op, helper, slideVar[code[pc].slide], code[pc].args, fail, pc + 1)

AddTextBox ==
    /\ At("add_text_box")
    /\ Step("add_text_box", text_box_call)
AddStyledHeading ==
    /\ At("add_styled_heading")
    /\ Step("add_styled_heading", styled_heading_call)
AddBulletList ==
    /\ At("add_bullet_list")
    /\ Step("add_bullet_list", bullet_list_call)
AddCard ==
    /\ At("add_card")
    /\ Step("add_card", card_call)
AddBadge ==
    /\ At("add_badge")
    /\ Step("add_badge", badge_call)
AddStatBox ==
    /\ At("add_stat_box")
    /\ Step("add_stat_box", stat_box_call)
AddFlowArrow ==
    /\ At("add_flow_arrow")
    /\ Step("add_flow_arrow", flow_arrow_call)
AddFlowBox ==
    /\ At("add_flow_box")
    /\ Step("add_flow_box", flow_box_call)
AddYellowRectangle ==
    /\ At("add_yellow_rectangle")
    /\ Step("add_yellow_rectangle", yellow_rectangle_call)
AddNumberCircle ==
    /\ At("add_number_circle")
    /\ Step("add_number_circle", number_circle_call)

\* prs.save(output_path)
Save ==
    /\ At("save")
    /\ \E fail \in 0..1 :
          /\ last' = Plain("save", fail)
          /\ IF fail = 1
             THEN err' = "raised" /\ UNCHANGED <<pc, files>>
             ELSE /\ files' = Append(files, [path |-> code[pc].args.path, doc |-> prs[1]])
                  /\ pc' = pc + 1
                  /\ err' = err
    /\ UNCHANGED <<code, prs, slideVar, stdout, result, env>>

\* print(...)
PrintLine ==
    /\ At("print")
    /\ stdout' = Append(stdout, code[pc].args.line)
    /\ pc' = pc + 1
    /\ last' = Plain("print", 0)
    /\ UNCHANGED <<code, prs, slideVar, err, files, result, env>>

\* return output_path
Return ==
    /\ At("return")
    /\ result' = Some(code[pc].args.value)
    /\ pc' = pc + 1
    /\ last' = Plain("return", 0)
    /\ UNCHANGED <<code, prs, slideVar, err, files, stdout, env>>

Next ==
    \/ CreateDocument
    \/ AddSlide
    \/ SetSlideBackground
    \/ AddTextBox
    \/ AddStyledHeading
    \/ AddBulletList
    \/ AddCard
    \/ AddBadge
    \/ AddStatBox
    \/ AddFlowArrow
    \/ AddFlowBox
    \/ AddYellowRectangle
    \/ AddNumberCircle
    \/ Save
    \/ PrintLine
    \/ Return

Spec == Init /\ [][Next]_vars

-----------------------------------------------------------------------------
(* The script run again: create_presentation called once more after a run  *)
(* that completed, with the same library build and the files of the run    *)
(* before still on disk.                                                   *)

MaxRuns == 2

\* the next run starts: no document yet, nothing printed or returned
Restart ==
    /\ err = "none"
    /\ pc = Len(code) + 1
    /\ Len(files) < MaxRuns
    /\ pc' = 1
    /\ prs' = None
    /\ slideVar' = [k \in 1..NumSlideVars |-> 0]
    /\ stdout' = <<>>
    /\ result' = None
    /\ last' = NoCall
    /\ UNCHANGED <<code, err, files, env>>

AgainNext ==
    \/ Next
    \/ Restart

AgainSpec == Init /\ [][AgainNext]_vars

-----------------------------------------------------------------------------
(* The helpers on their own: a deck of one slide that already holds some   *)
(* shapes, and one call of one helper with arguments drawn from small      *)
(* sets that cover the kinds of value the script passes (lengths that are  *)
(* whole EMU, lengths that are not, empty and multi-line texts, defaults   *)
(* and overrides).                                                         *)

MaxExisting == 1
MaxItems == 2

Boxes ==
    { [left |-> MARGIN, top |-> Lit(18, 1), width |-> ContentWidth, height |-> Lit(12, 1)],
      [left |-> Lit(41, 1), top |-> Lit(205, 2), width |-> Lit(435, 2), height |-> Lit(45, 2)],
      [left |-> Lit(3, 0), top |-> Lit(52, 1), width |-> Lit(7333, 3), height |-> Lit(13, 1)] }

Texts == { Str(""), Str("PEAR"), <<"Next.js 14", NEWLINE, "RainbowKit">> }

TextBoxKws ==
    { NoKw,
      [font_size |-> 120, font_color |-> YELLOW, bold |-> TRUE, italic |-> TRUE,
       align |-> "CENTER", vertical_anchor |-> "MIDDLE"],
      [font_size |-> 36, font_color |-> GRAY_300, align |-> "CENTER"],
      [italic |-> TRUE, font_name |-> "Space Grotesk"] }

HeadingParts == { Str(""), Str("The "), <<"Demo", NEWLINE, "Flow">> }

HeadingKws ==
    { [prefix |-> x, accent |-> y, suffix |-> z] :
          x \in HeadingParts, y \in HeadingParts, z \in HeadingParts }
    \cup { [accent |-> Str("Trade")], NoKw,
           [prefix |-> Str("The "), accent |-> Str("Opportunity"), font_size |-> 44,
            align |-> "CENTER"] }

Items == { Str("Risk management is entirely manual"), <<"a", NEWLINE, "b">> }

RECURSIVE ItemLists(_)
\* the lists of at most n items
ItemLists(n) ==
    IF n = 0 THEN { <<>> }
    ELSE ItemLists(n - 1) \cup
         { Append(l, x) : l \in { m \in ItemLists(n - 1) : Len(m) = n - 1 }, x \in Items }

BulletKws == { NoKw, [font_size |-> 17], [font_size |-> 14, font_color |-> WHITE] }

CardKws ==
    { NoKw, [has_border |-> FALSE], [has_border |-> TRUE, border_color |-> YELLOW] }

BadgePlaces == { [left |-> Lit(48, 1), top |-> Lit(58, 1)],
                 [left |-> Lit(11, 0), top |-> Lit(437, 2)] }

BadgeKws ==
    { NoKw, [width |-> Lit(2, 0)],
      [bg_color |-> GRAY_700, text_color |-> WHITE, width |-> Lit(22, 1)] }

\* the shapes a test slide starts with
Existing(n) ==
    [i \in 1..n |->
        [add_shape("RECTANGLE", Inches(MARGIN), Inches(Lit(4, 1)), Inches(ContentWidth),
                   Inches(Lit(3, 2)), [avLst_missing |-> FALSE])
         EXCEPT !.fill = solid(YELLOW), !.line = NoLine]]

PrimInit ==
    /\ code = <<>>
    /\ pc = 0
    /\ \E n \in 0..MaxExisting :
          prs = Some([slide_width |-> Inches(SLIDE_WIDTH), slide_height |-> Inches(SLIDE_HEIGHT),
                      slides |-> << [slide_id |-> 256, background |-> solid(BLACK),
                                     shapes |-> Existing(n)] >>])
    /\ slideVar = [k \in 1..NumSlideVars |-> IF k = 1 THEN 1 ELSE 0]
    /\ err = "none"
    /\ files = <<>>
    /\ stdout = <<>>
    /\ result = None
    /\ env \in Envs
    /\ last = NoCall

\* the helpers that draw a card; only they run the corner-radius block
DrawsCard == {"add_card", "add_stat_box"}

\* helper op may be called on the test slide: nothing was called yet; the
\* build's corner-radius behaviour is varied only for the helpers that run
\* into it
Ready(op) ==
    /\ pc = 0
    /\ last.op = "none"
    /\ op \notin DrawsCard => env.radius_fails_at = 0

\* one call of helper op on the test slide
Try(op, helper(_, _, _, _), a) ==
    \E fail \in 0..StructuralCalls(op) : Call(op, helper, 1, a, fail, 0)

TryTextBox ==
    /\ Ready("add_text_box")
    /\ \E b \in Boxes, t \in Texts, kw \in TextBoxKws :
           Try("add_text_box", text_box_call, [left |-> b.left, top |-> b.top, width |-> b.width,
                                height |-> b.height, text |-> t, kw |-> kw])

TryStyledHeading ==
    /\ Ready("add_styled_heading")
    /\ \E b \in Boxes, kw \in HeadingKws :
           Try("add_styled_heading", styled_heading_call, [left |-> b.left, top |-> b.top, width |-> b.width,
                                      height |-> b.height, kw |-> kw])

TryBulletList ==
    /\ Ready("add_bullet_list")
    /\ \E b \in Boxes, items \in ItemLists(MaxItems), kw \in BulletKws :
           Try("add_bullet_list", bullet_list_call, [left |-> b.left, top |-> b.top, width |-> b.width,
                                   height |-> b.height, items |-> items, kw |-> kw])

TryCard ==
    /\ Ready("add_card")
    /\ \E b \in Boxes, kw \in CardKws :
           Try("add_card", card_call, [left |-> b.left, top |-> b.top, width |-> b.width,
                            height |-> b.height, kw |-> kw])

TryBadge ==
    /\ Ready("add_badge")
    /\ \E b \in BadgePlaces, t \in Texts, kw \in BadgeKws :
           Try("add_badge", badge_call, [left |-> b.left, top |-> b.top, text |-> t, kw |-> kw])

TryStatBox ==
    /\ Ready("add_stat_box")
    /\ \E b \in Boxes, t \in Texts :
           Try("add_stat_box", stat_box_call, [left |-> b.left, top |-> b.top, width |-> b.width,
                                height |-> b.height, number |-> Str("$50B+"), label |-> t])

TryFlowArrow ==
    /\ Ready("add_flow_arrow")
    /\ \E b \in BadgePlaces :
           Try("add_flow_arrow", flow_arrow_call, [left |-> b.left, top |-> b.top])

TryFlowBox ==
    /\ Ready("add_flow_box")
    /\ \E b \in Boxes, t \in Texts, h \in BOOLEAN :
           Try("add_flow_box", flow_box_call, [left |-> b.left, top |-> b.top, width |-> b.width,
                                text |-> t, is_highlight |-> h])

PrimNext ==
    \/ TryTextBox
    \/ TryStyledHeading
    \/ TryBulletList
    \/ TryCard
    \/ TryBadge
    \/ TryStatBox
    \/ TryFlowArrow
    \/ TryFlowBox

PrimSpec == PrimInit /\ [][PrimNext]_vars

-----------------------------------------------------------------------------
(* Properties.                                                             *)

Slides == IF prs = None THEN <<>> ELSE prs[1].slides

\* the statement that saves the document
SaveStmt == CHOOSE i \in 1..Len(Program) : Program[i].op = "save"
SaveReached == pc >= SaveStmt
Completed == pc = Len(Program) + 1

\* a step keeps every existing slide at its place in the document
SlidesAppendOnly ==
    /\ prs # None => prs' # None
    /\ Len(Slides') >= Len(Slides)
    /\ \A i \in 1..Len(Slides) : Slides'[i].slide_id = Slides[i].slide_id

\* a run that has reached the save step holds the 12 slides slide1 .. slide12
TwelveSlidesAtSave ==
    SaveReached =>
        /\ Len(Slides) = 12
        /\ \A k \in 1..12 : slideVar[k] = k /\ Slides[k].slide_id = 255 + k

\* C1: a run that reaches the save step has created exactly 12 slides, which
\* are the slides bound to slide1 .. slide12 in this order, and no step
\* removes a slide, reorders the slides or inserts one before an existing one
\* (every state but the initial one, where nothing exists yet, is the target
\* of a step, so the primed state predicate covers every state of a run)
C1_TwelveSlidesInSourceOrder == [][SlidesAppendOnly /\ TwelveSlidesAtSave']_vars

C1_Witness ==
    /\ pc = SaveStmt
    /\ err = "none"
    /\ Len(Slides) = 12
    /\ slideVar[12] = 12

\* the slide at index i was just created and its background is set next
AwaitsBackground(i) ==
    /\ Running
    /\ Program[pc].op = "set_slide_background"
    /\ slideVar[Program[pc].slide] = i
    /\ i = Len(Slides)
    /\ Slides[i].shapes = <<>>

BackgroundSetFirst ==
    \A i \in 1..Len(Slides) : Slides[i].background = solid(BLACK) \/ AwaitsBackground(i)

SavedBackgrounds ==
    \A f \in 1..Len(files) :
        /\ Len(files[f].doc.slides) = 12
        /\ \A i \in 1..12 : files[f].doc.slides[i].background = solid(BLACK)

\* C2: every slide has a solid BLACK background, except the newest slide in
\* the one state between its creation and the call that sets its background,
\* where it holds no element yet; a background once set is never changed;
\* every one of the 12 slides of a saved document has it
C2_BackgroundBlack ==
    [][/\ BackgroundSetFirst'
       /\ SavedBackgrounds'
       /\ \A i \in 1..Len(Slides) :
             Slides[i].background = solid(BLACK) => Slides'[i].background = solid(BLACK)]_vars

C2_Witness ==
    /\ files # <<>>
    /\ Len(Slides) = 12
    /\ \A i \in 1..12 : Slides[i].background = solid(BLACK) /\ Slides[i].shapes # <<>>

FailureEndsRun ==
    /\ last.fail # 0 => err = "raised" /\ last.raised
    /\ err = "raised" =>
          /\ last.fail # 0
          /\ pc = last.stmt
          /\ stdout = <<>>
          /\ result = None
          /\ (last.op # "save" => files = <<>>)

\* C3: a structural library call that raises ends the run at that statement:
\* the error is out of create_presentation (not swallowed), no step follows
\* it (no retry, no later slide or element), nothing is printed or returned,
\* and unless the failing call was the save itself no file has been written
C3_StructuralFailurePropagates == [][err # "raised" /\ FailureEndsRun']_vars

C3_Witness ==
    /\ err = "raised"
    /\ last.op = "add_text_box"
    /\ Len(Slides) = 7
    /\ files = <<>>

\* the shape list of the slide the last helper call worked on, and the
\* shape that call created first
LastShapes == Slides[last.slide].shapes
Made == LastShapes[last.before + 1]

\* the last step was a call of helper op in which no structural call raised
Called(op) == last.op = op /\ last.fail = 0

\* a statement of add_card's try block raises in this library build
RadiusFails ==
    /\ env.radius_fails_at # 0
    /\ env.radius_fails_at \in {4, 5} => env.avLst_missing

\* the shape s lies where a call with the arguments a puts it
Placed(s, a) ==
    /\ s.left = Inches(a.left)
    /\ s.top = Inches(a.top)
    /\ s.width = Inches(a.width)
    /\ s.height = Inches(a.height)

\* C4: when a statement of the corner-radius block of add_card raises,
\* add_card raises nothing and returns the shape it created, which is the one
\* shape added to the slide and has the GRAY_700 fill, the outline asked for
\* (1 pt in border_color, or none), and the position and size of the arguments
C4_RadiusFailureSwallowed ==
    (Called("add_card") /\ RadiusFails) =>
        /\ ~last.raised
        /\ err = "none"
        /\ Len(LastShapes) = last.before + 1
        /\ last.ret = Some(last.before + 1)
        /\ Made.auto_shape_type = "ROUNDED_RECTANGLE"
        /\ Made.fill = solid(GRAY_700)
        /\ LET kw == last.args.kw @@ add_card_defaults
           IN Made.line = IF kw.has_border THEN SolidLine(kw.border_color, Pt(1))
                          ELSE NoLine
        /\ Placed(Made, last.args)

C4_Witness ==
    /\ Called("add_card")
    /\ env.radius_fails_at = 6
    /\ last.args.kw = [has_border |-> FALSE]
    /\ last.ret = Some(last.before + 1)
    /\ Made.line = NoLine
    /\ Made.avLst = Some(<<>>)

\* the helpers and inline blocks that set a vertical text anchor
SetsAnchor == {"add_text_box", "add_badge", "add_flow_box", "add_number_circle"}

\* text, size, colour, weight and alignment the last call gives its element
StyleAsked ==
    LET a == last.args
    IN CASE last.op = "add_text_box" ->
              LET kw == a.kw @@ add_text_box_defaults
              IN [text |-> a.text, size |-> kw.font_size, color |-> kw.font_color,
                  bold |-> kw.bold, align |-> kw.align]
         [] last.op = "add_badge" ->
              [text |-> a.text, size |-> 12,
               color |-> (a.kw @@ add_badge_defaults).text_color,
               bold |-> TRUE, align |-> "CENTER"]
         [] last.op = "add_flow_box" ->
              [text |-> a.text, size |-> 13,
               color |-> IF a.is_highlight THEN BLACK ELSE WHITE,
               bold |-> a.is_highlight, align |-> "CENTER"]
         [] last.op = "add_number_circle" ->
              [text |-> a.num, size |-> 16, color |-> BLACK, bold |-> TRUE,
               align |-> "CENTER"]

\* the paragraph p carries the text and the styling s
Styled(p, s) ==
    /\ p.content = append_text(s.text)
    /\ p.font.size = Some(Pt(s.size))
    /\ p.font.color = Some(s.color)
    /\ p.font.bold = Some(s.bold)
    /\ p.alignment = Some(s.align)

\* a call whose anchor assignment raised returned its element, styled
AnchorlessElement ==
    (last.op \in SetsAnchor /\ last.fail = 0) =>
        /\ ~last.raised
        /\ err = "none"
        /\ pc = last.stmt + 1
        /\ Len(LastShapes) = last.before + 1
        /\ last.ret = Some(last.before + 1)
        /\ Made.text_frame.anchor = None
        /\ Len(Made.text_frame.paragraphs) = 1
        /\ Styled(Made.text_frame.paragraphs[1], StyleAsked)

\* the number of elements a statement adds to its slide
ElementsOf(op) ==
    CASE op = "add_stat_box" -> 3
      [] op \in {"Presentation", "add_slide", "set_slide_background", "save", "print",
                 "return"} -> 0
      [] OTHER -> 1

\* the number of elements the statements before pc add to slide<k>
Built(k) ==
    Cardinality({ i \in 1..(pc - 1) : code[i].slide = k /\ ElementsOf(code[i].op) >= 1 })
    + 2 * Cardinality({ i \in 1..(pc - 1) : code[i].slide = k /\ code[i].op = "add_stat_box" })

\* every statement passed has built its elements
EveryElementBuilt ==
    err = "none" =>
        \A k \in 1..NumSlideVars :
            slideVar[k] # 0 => Len(Slides[slideVar[k]].shapes) = Built(k)

\* C5: in a library build where assigning the vertical anchor raises, every
\* call of add_text_box, add_badge, add_flow_box and of the slide-9 number
\* circle still returns its element, with the text, font size, colour, weight
\* and alignment set (the anchor is left unset); the run stops only at a
\* structural failure, otherwise the next statement can always run, every
\* statement passed has added its elements, and a completed run has saved the
\* 12 slides
C5_AnchorFailureSwallowed ==
    env.anchor_fails =>
        /\ AnchorlessElement
        /\ err = "raised" => last.fail # 0
        /\ Running => ENABLED Next
        /\ EveryElementBuilt
        /\ Completed => Len(files) = 1 /\ Len(files[1].doc.slides) = 12

C5_Witness ==
    /\ env.anchor_fails
    /\ Completed
    /\ files # <<>>
    /\ \E s \in 1..Len(files[1].doc.slides[9].shapes) :
          LET shape == files[1].doc.slides[9].shapes[s]
          IN /\ shape.auto_shape_type = "OVAL"
             /\ shape.text_frame.anchor = None
             /\ shape.text_frame.paragraphs[1].font.bold = Some(TRUE)

\* the number of elements all statements of the script add to slide<k>
Planned(k) ==
    Cardinality({ i \in 1..Len(code) : code[i].slide = k /\ ElementsOf(code[i].op) >= 1 })
    + 2 * Cardinality({ i \in 1..Len(code) : code[i].slide = k /\ code[i].op = "add_stat_box" })

\* the document d holds the 12 slides with all their elements
FullyBuilt(d) ==
    /\ Len(d.slides) = 12
    /\ \A k \in 1..12 : Len(d.slides[k].shapes) = Planned(k)

\* C6: a run saves at most once; nothing is saved before the save statement;
\* the saved file is at output_path and holds the 12 slides with all the
\* elements the script builds; lines are printed and the path is returned only
\* once the file is saved; and the document in memory stays equal to the saved
\* one (nothing changes it after the save)
C6_SavedOnceAtTheEnd ==
    /\ Len(files) <= 1
    /\ pc <= SaveStmt => files = <<>>
    /\ stdout # <<>> \/ result # None => files # <<>>
    /\ files # <<>> =>
          /\ files[1].path = output_path
          /\ FullyBuilt(files[1].doc)
          /\ prs = Some(files[1].doc)
          /\ err = "none"
          /\ pc > SaveStmt

C6_Witness ==
    /\ Completed
    /\ Len(files) = 1
    /\ Len(stdout) = 5
    /\ result = Some(output_path)
    /\ prs = Some(files[1].doc)
    /\ Len(files[1].doc.slides[12].shapes) > 0

\* the call added one element to the slide and returned it
AddedOne ==
    /\ ~last.raised
    /\ Len(LastShapes) = last.before + 1
    /\ last.ret = Some(last.before + 1)

\* the parts of the heading the last call was given
HeadingAsked == last.args.kw @@ add_styled_heading_defaults

\* the position of the accent run among the runs (0: no accent run)
AccentAt ==
    IF HeadingAsked.accent = <<>> THEN 0
    ELSE IF HeadingAsked.prefix = <<>> THEN 1 ELSE 2

\* C7: add_styled_heading adds one text box with one paragraph made of runs
\* only; the run texts concatenate to prefix + accent + suffix; there is one
\* run per non-empty part and none is empty; the accent run is italic and
\* YELLOW, every other run is WHITE and not italic
C7_HeadingRuns ==
    Called("add_styled_heading") =>
        /\ AddedOne
        /\ Made.shape_type = "TEXT_BOX"
        /\ Len(Made.text_frame.paragraphs) = 1
        /\ LET content == Made.text_frame.paragraphs[1].content
               runs == runs_of(content)
               h == HeadingAsked
           IN /\ content = runs
              /\ StrJoin([i \in 1..Len(runs) |-> runs[i].text])
                    = StrCat(StrCat(h.prefix, h.accent), h.suffix)
              /\ Len(runs) = Cardinality({ part \in {"prefix", "accent", "suffix"} :
                                              h[part] # <<>> })
              /\ \A i \in 1..Len(runs) :
                    /\ runs[i].text # <<>>
                    /\ IF i = AccentAt
                       THEN /\ runs[i].font.italic = Some(TRUE)
                            /\ runs[i].font.color = Some(YELLOW)
                       ELSE /\ runs[i].font.italic # Some(TRUE)
                            /\ runs[i].font.color = Some(WHITE)

C7_Witness ==
    /\ Called("add_styled_heading")
    /\ HeadingAsked.prefix = Str("The ")
    /\ HeadingAsked.accent = <<"Demo", NEWLINE, "Flow">>
    /\ HeadingAsked.suffix = Str("The ")
    /\ Len(Made.text_frame.paragraphs[1].content) = 3
    /\ Made.text_frame.paragraphs[1].content[2].font.italic = Some(TRUE)

\* C8: add_badge adds one shape and nothing else: a rounded rectangle at
\* (left, top), 0.4 inch (365760 EMU) high, as wide as the width argument,
\* which carries the caption itself, bold and centred; with the default
\* arguments it is 1.4 inch (1280160 EMU) wide, filled YELLOW with BLACK text;
\* a slide that was empty then holds exactly this one shape
C8_BadgeShape ==
    Called("add_badge") =>
        LET kw == last.args.kw @@ add_badge_defaults
            p == Made.text_frame.paragraphs
        IN /\ AddedOne
           /\ Made.shape_type = "AUTO_SHAPE"
           /\ Made.auto_shape_type = "ROUNDED_RECTANGLE"
           /\ Made.left = Inches(last.args.left)
           /\ Made.top = Inches(last.args.top)
           /\ Made.height = 365760
           /\ Made.width = Inches(kw.width)
           /\ Made.fill = solid(kw.bg_color)
           /\ Len(p) = 1
           /\ p[1].content = append_text(last.args.text)
           /\ p[1].alignment = Some("CENTER")
           /\ p[1].font.bold = Some(TRUE)
           /\ p[1].font.color = Some(kw.text_color)
           /\ last.args.kw = NoKw =>
                 /\ Made.width = 1280160
                 /\ Made.fill = solid(YELLOW)
                 /\ p[1].font.color = Some(BLACK)
           /\ last.before = 0 => Len(Slides) = 1 /\ Len(Slides[1].shapes) = 1

C8_Witness ==
    /\ Called("add_badge")
    /\ last.args.kw = NoKw
    /\ last.args.text = Str("PEAR")
    /\ Len(Slides) = 1
    /\ Len(Slides[1].shapes) = 1
    /\ Slides[1].shapes[1].width = 1280160
    /\ Slides[1].shapes[1].height = 365760

\* a str as the paragraph text getter returns it after the setter stored it:
\* every line feed has become a vertical tab
AsStored(text) == [i \in 1..Len(text) |-> IF text[i] = NEWLINE THEN VTAB ELSE text[i]]

\* font size, colour, weight, slant and alignment of the paragraph p are the
\* arguments of the last add_text_box call or their defaults
FontAsAsked(p) ==
    LET kw == last.args.kw @@ add_text_box_defaults
    IN /\ p.font.size = Some(Pt(kw.font_size))
       /\ p.font.color = Some(kw.font_color)
       /\ p.font.bold = Some(kw.bold)
       /\ p.font.italic = Some(kw.italic)
       /\ p.alignment = Some(kw.align)

\* a length of v inches survives Inches and the read back unchanged
Lossless(v) == IsWhole(FMul(v, FromInt(EMUS_PER_INCH)))

\* the position and size of s, read back in inches, are those of a wherever
\* the conversion to EMU cut nothing off
ReadsBackWhereLossless(s, a) ==
    /\ Lossless(a.left) => inches(s.left) = a.left
    /\ Lossless(a.top) => inches(s.top) = a.top
    /\ Lossless(a.width) => inches(s.width) = a.width
    /\ Lossless(a.height) => inches(s.height) = a.height

\* C9 as stated: position, size and text read back from the element are the
\* arguments of the call
C9_RoundTripExact ==
    Called("add_text_box") =>
        /\ AddedOne
        /\ inches(Made.left) = last.args.left
        /\ inches(Made.top) = last.args.top
        /\ inches(Made.width) = last.args.width
        /\ inches(Made.height) = last.args.height
        /\ paragraph_text(Made.text_frame.paragraphs[1]) = last.args.text
        /\ FontAsAsked(Made.text_frame.paragraphs[1])

\* C9: the element add_text_box creates and returns has left, top, width and
\* height equal to the arguments converted to whole EMU by truncation (read
\* back in inches they are the arguments when nothing was cut off), its text
\* reads back as the argument with every line feed turned into a vertical
\* tab, and font size, colour, bold, italic and alignment are the arguments
\* or their defaults
C9_RoundTripInEmu ==
    Called("add_text_box") =>
        /\ AddedOne
        /\ Made.shape_type = "TEXT_BOX"
        /\ Placed(Made, last.args)
        /\ ReadsBackWhereLossless(Made, last.args)
        /\ Len(Made.text_frame.paragraphs) = 1
        /\ paragraph_text(Made.text_frame.paragraphs[1]) = AsStored(last.args.text)
        /\ FontAsAsked(Made.text_frame.paragraphs[1])

C9_Witness ==
    /\ Called("add_text_box")
    /\ last.args.width = ContentWidth
    /\ Made.width = 10728655
    /\ inches(Made.width) # last.args.width
    /\ inches(Made.left) = last.args.left
    /\ last.args.text = <<"Next.js 14", NEWLINE, "RainbowKit">>
    /\ paragraph_text(Made.text_frame.paragraphs[1]) = <<"Next.js 14", VTAB, "RainbowKit">>

\* the paragraphs of the text box the last add_bullet_list call made
BulletParagraphs == Made.text_frame.paragraphs

\* font size, colour and spacing of paragraph p are those of the call
BulletStyled(p) ==
    LET kw == last.args.kw @@ add_bullet_list_defaults
    IN /\ p.font.size = Some(Pt(kw.font_size))
       /\ p.font.color = Some(kw.font_color)
       /\ p.space_before = Some(Pt(12))
       /\ p.space_after = Some(Pt(6))

\* C10 as stated: as many paragraphs as items, also for no items; each
\* paragraph's text is the marker followed by the item
C10_OneParagraphPerItem ==
    Called("add_bullet_list") =>
        /\ AddedOne
        /\ Len(BulletParagraphs) = Len(last.args.items)
        /\ \A i \in 1..Len(last.args.items) :
              /\ paragraph_text(BulletParagraphs[i]) = StrCat(Str(BULLET), last.args.items[i])
              /\ BulletStyled(BulletParagraphs[i])

\* C10: add_bullet_list adds one text box; for a list that is not empty it
\* holds one paragraph per item, in item order, each reading the marker
\* followed by the item (a line feed of the item reads back as a vertical
\* tab) and all with the font size, colour and spacing of the call; for an
\* empty list it holds the one empty, unstyled paragraph a new text box has
C10_ParagraphsOfItems ==
    Called("add_bullet_list") =>
        /\ AddedOne
        /\ Made.shape_type = "TEXT_BOX"
        /\ Placed(Made, last.args)
        /\ Len(BulletParagraphs) = Max(1, Len(last.args.items))
        /\ last.args.items = <<>> => BulletParagraphs = <<EmptyParagraph>>
        /\ \A i \in 1..Len(last.args.items) :
              /\ paragraph_text(BulletParagraphs[i])
                    = AsStored(StrCat(Str(BULLET), last.args.items[i]))
              /\ BulletStyled(BulletParagraphs[i])

C10_Witness ==
    /\ Called("add_bullet_list")
    /\ last.args.items = <<>>
    /\ ~last.raised
    /\ Len(BulletParagraphs) = 1
    /\ paragraph_text(BulletParagraphs[1]) = <<>>
    /\ BulletParagraphs[1].font.size = None

\* the n-th element the last helper call added to the slide
MadeNth(n) == LastShapes[last.before + n]

\* the text box s sits in the column of the last call's box, v inches below
\* its top and h inches high, and shows text centred in size pt
StatText(s, v, h, text, size) ==
    /\ s.shape_type = "TEXT_BOX"
    /\ s.left = Inches(last.args.left)
    /\ s.width = Inches(last.args.width)
    /\ s.top = Inches(FAdd(last.args.top, v))
    /\ s.height = Inches(h)
    /\ Len(s.text_frame.paragraphs) = 1
    /\ paragraph_text(s.text_frame.paragraphs[1]) = AsStored(text)
    /\ s.text_frame.paragraphs[1].font.size = Some(Pt(size))
    /\ s.text_frame.paragraphs[1].alignment = Some("CENTER")

IsPrefix(s, t) == Len(s) <= Len(t) /\ SubSeq(t, 1, Len(s)) = s

SlideIds(slides) == [i \in 1..Len(slides) |-> slides[i].slide_id]

\* the slides in which a step changes the list of elements
Touched == { i \in 1..Len(Slides) : Slides'[i].shapes # Slides[i].shapes }

\* a step keeps the slides in place and every element in its slide at its
\* position: new elements are appended to the list of one slide
ElementsStayPut ==
    /\ IsPrefix(SlideIds(Slides), SlideIds(Slides'))
    /\ Cardinality(Touched) <= 1
    /\ \A i \in 1..Len(Slides) : IsPrefix(Slides[i].shapes, Slides'[i].shapes)
    /\ \A i \in (Len(Slides) + 1)..Len(Slides') : Slides'[i].shapes = <<>>

\* no two slides are the same slide
SlidesDistinct ==
    \A i, j \in 1..Len(Slides) : Slides[i].slide_id = Slides[j].slide_id => i = j

\* C12: every element created so far is in the element list of exactly one
\* slide: the slides are distinct, each slide holds exactly the elements the
\* statements run on it created, and a step only appends elements to one
\* slide, moving or copying none; the slide sequence before a step is a
\* prefix of the slide sequence after it
C12_OneOwnerAppendOnly ==
    [][/\ ElementsStayPut
       /\ SlidesDistinct'
       /\ EveryElementBuilt']_vars

C12_Witness ==
    /\ err = "none"
    /\ Len(Slides) = 5
    /\ pc <= Len(code)
    /\ code[pc].op = "add_slide"
    /\ Len(Slides[5].shapes) = Planned(5)
    /\ Len(Slides[2].shapes) = Planned(2)

\* the document d, under construction, is so far what the document full was
\* at the same point: same slide size, same slides in the same order, each
\* with a background not yet set or the same, and the same elements in order
SameSoFar(d, full) ==
    /\ d.slide_width = full.slide_width
    /\ d.slide_height = full.slide_height
    /\ IsPrefix(SlideIds(d.slides), SlideIds(full.slides))
    /\ \A i \in 1..Len(d.slides) :
          /\ d.slides[i].background \in {NoFill, full.slides[i].background}
          /\ IsPrefix(d.slides[i].shapes, full.slides[i].shapes)

\* the paths written to
PathsWritten == { files[f].path : f \in 1..Len(files) }

RECURSIVE Ascending(_)
\* the numbers of the set S in increasing order
Ascending(S) ==
    IF S = {} THEN <<>>
    ELSE LET m == CHOOSE x \in S : \A y \in S : x <= y
         IN <<m>> \o Ascending(S \ {m})

\* the flow diagram statements of the script that have run, in order
FlowRun ==
    Ascending({ i \in 1..(pc - 1) : code[i].op \in {"add_flow_box", "add_flow_arrow"} })

\* the element statement i of the script created (the first, if several)
ElementOf(i) ==
    Slides[slideVar[code[i].slide]].shapes[
        Cardinality({ j \in 1..(i - 1) :
                         code[j].slide = code[i].slide /\ ElementsOf(code[j].op) >= 1 })
        + 2 * Cardinality({ j \in 1..(i - 1) :
                               code[j].slide = code[i].slide /\ code[j].op = "add_stat_box" })
        + 1]

RightEdge(s) == s.left + s.width

\* the flow diagram is complete
FlowDrawn == \A i \in 1..Len(code) : code[i].op = "add_flow_box" => i < pc

\* the n-th element e of the flow diagram, made by statement stmt, follows
\* the element before it as the loop of slide 6 places them
FlowPlaced(n, stmt, e, before) ==
    /\ stmt.slide = 6
    /\ stmt.op = IF n % 2 = 1 THEN "add_flow_box" ELSE "add_flow_arrow"
    /\ n % 2 = 1 =>
          /\ e.auto_shape_type = "ROUNDED_RECTANGLE"
          /\ paragraph_text(e.text_frame.paragraphs[1]) = Str(flow_items[(n + 1) \div 2][1])
          /\ e.width = Inches(Lit(26, 1))
          /\ e.left = Inches(Lit(6, 1)) + ((n - 1) \div 2) * Inches(Lit(32, 1))
    /\ n % 2 = 0 =>
          /\ e.shape_type = "TEXT_BOX"
          /\ e.width = Inches(Lit(6, 1))
    /\ n > 1 =>
          /\ e.left = RightEdge(before)
          /\ e.left > before.left

\* C14: the flow diagram of slide 6 is drawn box, arrow, box, arrow, ...: the
\* boxes carry the labels of flow_items in list order, the first at 0.6 inch
\* and each 3.2 inch right of the one before; every arrow is 0.6 inch wide,
\* starts at the right edge of the box before it (its left + 2.6 inch) and
\* ends exactly at the left edge of the box after it; the complete diagram
\* has 4 boxes and 3 arrows, ending with a box
C14_FlowRow ==
    \A run \in {FlowRun} :
        /\ \A n \in 1..Len(run) :
              FlowPlaced(n, code[run[n]], ElementOf(run[n]),
                         IF n > 1 THEN ElementOf(run[n - 1]) ELSE ElementOf(run[n]))
        /\ FlowDrawn => Len(run) = 7

\* the n-th element of the flow diagram
FlowElement(n) == ElementOf(FlowRun[n])

C14_Witness ==
    /\ FlowDrawn
    /\ err = "none"
    /\ Len(FlowRun) = 7
    /\ FlowElement(7).left = 9326880
    /\ RightEdge(FlowElement(6)) = 9326880
    /\ FlowElement(6).left = 8778240
    /\ FlowElement(1).left = 548640

\* the badge statements of slide 1 that have run, in order
TitleBadges ==
    Ascending({ i \in 1..(pc - 1) : code[i].op = "add_badge" /\ code[i].slide = 1 })

\* C15 as stated: once the three badges of the title slide are drawn, the
\* first badge is as far from the left edge of the slide as the last badge's
\* right edge is from the right edge of the slide
C15_BadgesCentred ==
    \A run \in {TitleBadges} :
        Len(run) = 3 =>
            ElementOf(run[1]).left = prs[1].slide_width - RightEdge(ElementOf(run[3]))

\* fill, text colour, weight and outline of a flow box by its highlight flag
FlowBoxLook(is_highlight) ==
    IF is_highlight
    THEN [fill |-> solid(YELLOW), color |-> BLACK, bold |-> TRUE, line |-> NoLine]
    ELSE [fill |-> solid(GRAY_700), color |-> WHITE, bold |-> FALSE,
          line |-> SolidLine(YELLOW, Pt(1))]

\* C16: add_flow_box adds one rounded rectangle at (left, top), 0.6 inch
\* (548640 EMU) high and of the given width, with the text centred; fill, text
\* colour, weight and outline depend on is_highlight only: YELLOW fill, BLACK
\* bold text and no outline when it is set, GRAY_700 fill, WHITE text that is
\* not bold and a 1 pt YELLOW outline when it is not; so the box has an
\* outline exactly when it is not highlighted
C16_FlowBoxStyle ==
    Called("add_flow_box") =>
        LET p == Made.text_frame.paragraphs
            look == FlowBoxLook(last.args.is_highlight)
        IN /\ AddedOne
           /\ Made.auto_shape_type = "ROUNDED_RECTANGLE"
           /\ Made.left = Inches(last.args.left)
           /\ Made.top = Inches(last.args.top)
           /\ Made.width = Inches(last.args.width)
           /\ Made.height = 548640
           /\ Len(p) = 1
           /\ p[1].content = append_text(last.args.text)
           /\ p[1].alignment = Some("CENTER")
           /\ Made.fill = look.fill
           /\ p[1].font.color = Some(look.color)
           /\ p[1].font.bold = Some(look.bold)
           /\ Made.line = look.line
           /\ (Made.line.fill = "solid") # last.args.is_highlight

C16_Witness ==
    /\ Called("add_flow_box")
    /\ last.args.is_highlight
    /\ Made.fill = solid(YELLOW)
    /\ Made.line = NoLine
    /\ Made.text_frame.paragraphs[1].font.bold = Some(TRUE)
    /\ Made.height = 548640

\* the shape s lies inside a slide of the document d
Inside(s, d) ==
    /\ s.left >= 0
    /\ s.top >= 0
    /\ s.width >= 0
    /\ s.height >= 0
    /\ s.left + s.width <= d.slide_width
    /\ s.top + s.height <= d.slide_height

\* C17: every element on every slide lies inside the slide rectangle of
\* 13.333 x 7.5 inch (12191695 x 6858000 EMU): its left and top are not
\* negative, its right edge is not beyond the slide width and its bottom edge
\* not beyond the slide height
C17_ElementsInsideSlide ==
    \A i \in 1..Len(Slides) :
        \A n \in 1..Len(Slides[i].shapes) : Inside(Slides[i].shapes[n], prs[1])

C17_Witness ==
    /\ files # <<>>
    /\ prs[1].slide_width = 12191695
    /\ prs[1].slide_height = 6858000
    /\ Len(Slides) = 12
    /\ \A i \in 1..12 : Len(Slides[i].shapes) = Planned(i)
    /\ \E n \in 1..Len(Slides[6].shapes) : RightEdge(Slides[6].shapes[n]) = 11704320

\* a step leaves every slide but the newest as it is
OnlyNewestChanges ==
    /\ Len(Slides') >= Len(Slides)
    /\ \A i \in 1..(Len(Slides) - 1) : Slides'[i] = Slides[i]
    /\ (Len(Slides) > 0 /\ Len(Slides') > Len(Slides)) =>
          Slides'[Len(Slides)] = Slides[Len(Slides)]

\* the statement to run next works on the newest slide
NextOnNewest ==
    (Running /\ code[pc].slide # 0 /\ code[pc].op # "add_slide") =>
        slideVar[code[pc].slide] = Len(Slides)

\* C18: a step changes no slide but the newest one, and creating a slide
\* changes no slide: once slide k+1 exists, the background and the elements
\* of slide k stay as they are; every statement that sets a background or
\* adds an element works on the newest slide
C18_OnlyNewestSlideChanges == [][OnlyNewestChanges /\ NextOnNewest']_vars

C18_Witness ==
    /\ Len(Slides) = 12
    /\ last.op = "add_card"
    /\ last.slide = 12
    /\ ~last.raised
    /\ \A k \in 1..11 : Len(Slides[k].shapes) = Planned(k)

\* the summary line for a document of n slides
CountLine(n) == "  * " \o ToString(n) \o " slides"

\* C19: when the confirmation is printed a file has been saved; the first
\* line names the path that file was saved to, and the second line reports
\* 12 slides, which is the number of slides of the saved document
C19_ConfirmationMatchesFile ==
    stdout # <<>> =>
        /\ files # <<>>
        /\ stdout[1] = "[x] Presentation saved to: " \o files[1].path
        /\ Len(stdout) >= 2 =>
              /\ stdout[2] = CountLine(12)
              /\ stdout[2] = CountLine(Len(files[1].doc.slides))

C19_Witness ==
    /\ Len(stdout) >= 2
    /\ Len(files) = 1
    /\ stdout[2] = "  * 12 slides"
    /\ Len(files[1].doc.slides) = 12
    /\ files[1].path = output_path

=============================================================================
